---- MODULE Spec2Model ----
(***************************************************************************)
(* Lecture Notes App: the four-stage processing pipeline of                *)
(* lecture_notes_app.py and the text parsing / validation functions of     *)
(* modules/note_formatter.py and modules/action_extractor.py.              *)
(*                                                                         *)
(* Text is a sequence of one-character strings.  A fixed literal of the    *)
(* program whose inner characters no operation looks at (a prompt          *)
(* template's prose, an error message) is written as one symbol.           *)
(* Optional values (Python None) are sequences of length 0 or 1.           *)
(***************************************************************************)
EXTENDS Integers, Sequences, FiniteSets, TLC

VARIABLES
    pc,             \* position of the script run
    session,        \* st.session_state
    fs,             \* temporary files that exist on disk
    created,        \* temporary files created during the run (history)
    cleaned,        \* paths passed to cleanup_temp_files during the run (history)
    trace,          \* stage invocations of the run, in order (history)
    ui,             \* messages shown to the user during the run
    llm_calls,      \* calls made to the text generation client by the stage in progress
    loc,            \* local variables of the script run
    arg,            \* argument of the function being applied
    ret             \* its result

vars == <<pc, session, fs, created, cleaned, trace, ui, llm_calls, loc, arg, ret>>

----------------------------------------------------------------------------
(* Python values *)

None == <<>>
Some(x) == <<x>>
IsNone(o) == o = <<>>
Get(o) == o[1]

----------------------------------------------------------------------------
(* str operations *)

Whitespace == {" ", "\t", "\n", "\r"}

Min(S) == CHOOSE x \in S : \A y \in S : x <= y
Max(S) == CHOOSE x \in S : \A y \in S : x >= y

\* str.lstrip(): from the first character that is not whitespace
LStrip(s) ==
    LET idx == {i \in 1..Len(s) : s[i] \notin Whitespace} IN
    IF idx = {} THEN <<>> ELSE SubSeq(s, Min(idx), Len(s))

\* str.strip(): from the first to the last character that is not whitespace
Strip(s) ==
    LET idx == {i \in 1..Len(s) : s[i] \notin Whitespace} IN
    IF idx = {} THEN <<>> ELSE SubSeq(s, Min(idx), Max(idx))

\* str.strip(c) for a single character c
StripChar(s, c) ==
    LET idx == {i \in 1..Len(s) : s[i] # c} IN
    IF idx = {} THEN <<>> ELSE SubSeq(s, Min(idx), Max(idx))

\* str.startswith(p)
StartsWith(s, p) == Len(s) >= Len(p) /\ SubSeq(s, 1, Len(p)) = p

\* p in s
Contains(s, p) ==
    \E i \in 1..(Len(s) - Len(p) + 1) : SubSeq(s, i, i + Len(p) - 1) = p

\* s[n:]
Drop(s, n) == SubSeq(s, n + 1, Len(s))

\* str.split(c) for a single character c: the pieces between the occurrences of c
Split(s, c) ==
    LET seps == {i \in 1..Len(s) : s[i] = c}
        n == Cardinality(seps)
        cut(k) == IF k = 0 THEN 0
                  ELSE IF k = n + 1 THEN Len(s) + 1
                  ELSE CHOOSE i \in seps : Cardinality({j \in seps : j <= i}) = k
    IN [k \in 1..(n + 1) |-> SubSeq(s, cut(k - 1) + 1, cut(k) - 1)]

\* sep.join(parts)
RECURSIVE Join(_, _)
Join(parts, sep) ==
    IF parts = <<>> THEN <<>>
    ELSE IF Len(parts) = 1 THEN parts[1]
    ELSE LET half == Len(parts) \div 2 IN
         Join(SubSeq(parts, 1, half), sep) \o sep
             \o Join(SubSeq(parts, half + 1, Len(parts)), sep)

\* the upper-case letters
UpperToLower ==
    [c \in {"A", "B", "C", "D", "E", "F", "G", "H", "I", "J", "K", "L", "M", "N", "O", "P", "Q", "R", "S", "T", "U", "V", "W", "X", "Y", "Z"} |->
        CASE c = "A" -> "a"
          [] c = "B" -> "b"
          [] c = "C" -> "c"
          [] c = "D" -> "d"
          [] c = "E" -> "e"
          [] c = "F" -> "f"
          [] c = "G" -> "g"
          [] c = "H" -> "h"
          [] c = "I" -> "i"
          [] c = "J" -> "j"
          [] c = "K" -> "k"
          [] c = "L" -> "l"
          [] c = "M" -> "m"
          [] c = "N" -> "n"
          [] c = "O" -> "o"
          [] c = "P" -> "p"
          [] c = "Q" -> "q"
          [] c = "R" -> "r"
          [] c = "S" -> "s"
          [] c = "T" -> "t"
          [] c = "U" -> "u"
          [] c = "V" -> "v"
          [] c = "W" -> "w"
          [] c = "X" -> "x"
          [] c = "Y" -> "y"
          [] c = "Z" -> "z"]

\* str.lower()
Lower(s) ==
    [i \in 1..Len(s) |-> IF s[i] \in DOMAIN UpperToLower THEN UpperToLower[s[i]] ELSE s[i]]

\* str(n) for n >= 0
RECURSIVE Digits(_)
Digits(n) ==
    LET d == <<"0", "1", "2", "3", "4", "5", "6", "7", "8", "9">>[(n % 10) + 1] IN
    IF n < 10 THEN <<d>> ELSE Append(Digits(n \div 10), d)

----------------------------------------------------------------------------
(* modules/note_formatter.py *)

MAIN_MARK == <<"#", "#", "#", " ">>
SUB_MARK == <<"#", "#", "#", "#", " ">>
BulletChars == {"-", "*", "(bullet)"}
NL == <<"\n">>

\* a line on which  ^### .+$  matches (re.MULTILINE)
MainTopicRegex(line) == StartsWith(line, MAIN_MARK) /\ Len(line) >= 5

\* a line on which  ^#### .+$  matches
SubtopicRegex(line) == StartsWith(line, SUB_MARK) /\ Len(line) >= 6

\* a line on which  ^\s*[-*(bullet)] .+$  ends a match
BulletRegex(line) ==
    LET rest == LStrip(line) IN
        /\ Len(rest) >= 3
        /\ rest[1] \in BulletChars
        /\ rest[2] = " "

\* len(re.findall(pattern, notes_markdown, re.MULTILINE)) over the text's lines
MainTopicCount(lines) == Cardinality({i \in 1..Len(lines) : MainTopicRegex(lines[i])})
SubtopicCount(lines) == Cardinality({i \in 1..Len(lines) : SubtopicRegex(lines[i])})
BulletCount(lines) == Cardinality({i \in 1..Len(lines) : BulletRegex(lines[i])})

MaxMainTopicsAllowed == 15

TooManyMainTopicsInclusive(n) == n >= MaxMainTopicsAllowed

\* note_formatter.py:107  len(main_topics) > 15
TooManyMainTopics(n) == n > MaxMainTopicsAllowed

\* the structural-order loop of validate_notes_structure (lines 121-128)
RECURSIVE SubtopicBeforeMain(_)
SubtopicBeforeMain(lines) ==
    IF lines = <<>> THEN FALSE
    ELSE IF StartsWith(Strip(Head(lines)), MAIN_MARK) THEN FALSE
    ELSE IF StartsWith(Strip(Head(lines)), SUB_MARK) THEN TRUE
    ELSE SubtopicBeforeMain(Tail(lines))

\* validate_notes_structure: [valid, errors]
validate_notes_structure(notes_markdown) ==
    IF Len(Strip(notes_markdown)) = 0
    THEN [valid |-> FALSE, errors |-> << <<"Notes are empty">> >>]
    ELSE
    LET lines == Split(notes_markdown, "\n")
        main_topics == MainTopicCount(lines)
        subtopics == SubtopicCount(lines)
        bullet_points == BulletCount(lines)
        e1 == IF main_topics < 1
              THEN << <<"No main topics found. Expected at least 1">> >> ELSE <<>>
        e2 == IF TooManyMainTopics(main_topics)
              THEN << <<"Too many main topics (">> \o Digits(main_topics)
                      \o <<"). Expected 3-7">> >> ELSE <<>>
        e3 == IF main_topics > 0 /\ subtopics < 1
              THEN << <<"No subtopics found. Expected at least 1 per main topic">> >> ELSE <<>>
        e4 == IF bullet_points < 2
              THEN << <<"Too few bullet points (">> \o Digits(bullet_points)
                      \o <<"). Expected some detailed notes">> >> ELSE <<>>
        e5 == IF SubtopicBeforeMain(lines)
              THEN << <<"Subtopic found before any main topic">> >> ELSE <<>>
        errors == e1 \o e2 \o e3 \o e4 \o e5
    IN [valid |-> Len(errors) = 0, errors |-> errors]

\* '\n'.join(current_content).strip()
ContentText(current_content) == Strip(Join(current_content, NL))

\* "if current_subtopic and current_main_topic": close the open subtopic
AttachSubtopic(st) ==
    [st EXCEPT !.main = Some([Get(st.main) EXCEPT !.subtopics =
        Append(@, [Get(st.sub) EXCEPT !.content = ContentText(st.content)])])]

SaveFinalSubtopicSkipped(st) == st

\* note_formatter.py:202-204  the final subtopic is saved at the end of the input
SaveFinalSubtopic(st) ==
    IF ~IsNone(st.sub) /\ ~IsNone(st.main) THEN AttachSubtopic(st) ELSE st

\* one iteration of the loop of parse_notes_hierarchy (lines 159-199)
ParseNotesLine(st, line) ==
    LET stripped == Strip(line) IN
    IF StartsWith(stripped, MAIN_MARK) THEN
        LET s1 == IF ~IsNone(st.sub) /\ ~IsNone(st.main)
                  THEN [AttachSubtopic(st) EXCEPT !.content = <<>>] ELSE st
            s2 == IF ~IsNone(s1.main)
                  THEN [s1 EXCEPT !.main_topics = Append(@, Get(s1.main))] ELSE s1
        IN [s2 EXCEPT !.main = Some([title |-> Strip(Drop(stripped, 4)),
                                     content |-> <<>>,
                                     subtopics |-> <<>>]),
                      !.sub = None]
    ELSE IF StartsWith(stripped, SUB_MARK) THEN
        LET s1 == IF ~IsNone(st.sub) /\ ~IsNone(st.main) THEN AttachSubtopic(st) ELSE st
        IN [s1 EXCEPT !.sub = Some([title |-> Strip(Drop(stripped, 5)), content |-> <<>>]),
                      !.content = <<>>]
    ELSE IF stripped # <<>> THEN [st EXCEPT !.content = Append(@, line)]
    ELSE st

\* the loop over the lines; the state after a line is computed before the
\* loop goes on to the next line
RECURSIVE ParseNotesLines(_, _)
ParseNotesLines(st, lines) ==
    IF lines = <<>> THEN st
    ELSE LET next == ParseNotesLine(st, Head(lines)) IN
         IF next = st /\ Tail(lines) = <<>> THEN st
         ELSE ParseNotesLines(next, Tail(lines))

\* parse_notes_hierarchy: the sequence hierarchy['main_topics']
parse_notes_hierarchy(notes_markdown) ==
    LET st0 == [main_topics |-> <<>>, main |-> None, sub |-> None, content |-> <<>>]
        st1 == ParseNotesLines(st0, Split(notes_markdown, "\n"))
        st2 == SaveFinalSubtopic(st1)
    IN IF ~IsNone(st2.main) THEN Append(st2.main_topics, Get(st2.main))
       ELSE st2.main_topics

\* re.findall(r'\*\*([^*]+)\*\*', text): non-overlapping bold terms, left to right.
\* A match opens at "**" followed by a character other than "*" and closes at the
\* first "*" after it, which must be doubled.
RECURSIVE CountBold(_)
CountBold(s) ==
    LET opens == {i \in 1..(Len(s) - 4) : s[i] = "*" /\ s[i + 1] = "*" /\ s[i + 2] # "*"} IN
    IF opens = {} THEN 0
    ELSE LET i == Min(opens)
             stars == {j \in (i + 3)..Len(s) : s[j] = "*"}
             j == IF stars = {} THEN 0 ELSE Min(stars)
         IN IF j # 0 /\ j < Len(s) /\ s[j + 1] = "*"
            THEN 1 + CountBold(Drop(s, j + 1))
            ELSE CountBold(Drop(s, i))

\* str.split(): the whitespace-separated words
Words(s) ==
    LET starts == {i \in 1..Len(s) :
                     s[i] \notin Whitespace /\ (i = 1 \/ s[i - 1] \in Whitespace)}
        n == Cardinality(starts)
        start(k) == CHOOSE i \in starts : Cardinality({j \in starts : j <= i}) = k
        stop(i) == LET ws == {j \in i..Len(s) : s[j] \in Whitespace} IN
                   IF ws = {} THEN Len(s) ELSE Min(ws) - 1
    IN [k \in 1..n |-> SubSeq(s, start(k), stop(start(k)))]

\* get_notes_metadata
get_notes_metadata(notes_markdown) ==
    LET lines == Split(notes_markdown, "\n") IN
    [main_topics_count |-> MainTopicCount(lines),
     subtopics_count |-> SubtopicCount(lines),
     word_count |-> Len(Words(notes_markdown)),
     character_count |-> Len(notes_markdown),
     bullet_points_count |-> BulletCount(lines),
     key_concepts_count |-> CountBold(notes_markdown)]

----------------------------------------------------------------------------
(* lecture_notes_app.py: session state *)

\* lecture_notes_app.py:67-84  the defaults of st.session_state
InitSession ==
    [processed |-> FALSE,
     transcript |-> <<>>,
     notes_markdown |-> <<>>,
     notes_hierarchy |-> <<>>,
     action_items |-> <<>>,
     actions_markdown |-> <<>>,
     audio_duration |-> [int |-> 0, frac |-> 0],
     metadata |-> None,
     temp_files |-> <<>>]

\* the local variables of the script before the run: nothing is bound
NoLocals ==
    [user_metadata |-> None,
     original_path |-> None,
     converted_path |-> None,
     duration |-> None,
     transcript |-> None,
     prompt |-> None,
     notes |-> None,
     actions |-> None,
     exc |-> None]

\* the script is not running: nothing on disk, nothing shown
PipelineIdle ==
    /\ session = InitSession
    /\ fs = {}
    /\ created = {}
    /\ cleaned = {}
    /\ trace = <<>>
    /\ ui = <<>>
    /\ llm_calls = <<>>
    /\ loc = NoLocals

PipelineUnchanged == UNCHANGED <<session, fs, created, cleaned, trace, ui, llm_calls, loc>>

----------------------------------------------------------------------------
(* Notes documents given to validate_notes_structure, parse_notes_hierarchy *)
(* and get_notes_metadata                                                  *)

MaxDocLines == 3
MaxMainTopics == 17

NoteLines ==
    { <<"#", "#", "#", " ", "A">>,          \* ### A
      <<"#", "#", "#", " ", "B">>,          \* ### B
      <<"#", "#", "#", "#", " ", "a">>,     \* #### a
      <<"#", "#", "#", "#", " ", "b">>,     \* #### b
      <<"-", " ", "x">>,                    \* - x
      <<"t">>,                              \* t
      <<>>,                                 \* (blank)
      <<" ", "#", "#", "#", " ", "A">>,     \* (indented) ### A
      <<"#", "#", "#", " ", " ">> }         \* ### followed by blanks only

RECURSIVE SeqsUpTo(_, _)
SeqsUpTo(S, n) ==
    IF n = 0 THEN { <<>> }
    ELSE LET shorter == SeqsUpTo(S, n - 1) IN
         shorter \cup { Append(q, x) : q \in shorter, x \in S }

Repeat(x, n) == [i \in 1..n |-> x]

NoteTails ==
    { << <<"#", "#", "#", "#", " ", "a">>, <<"-", " ", "x">>, <<"*", " ", "y">> >>,
      << <<"#", "#", "#", "#", " ", "a">>, <<"-", " ", "x">> >>,
      << <<"-", " ", "x">>, <<" ", "-", " ", "y">> >> }

\* heading lines that are indented, or whose title is blank
OddHeadings == { <<" ", "#", "#", "#", " ", "A">>, <<"#", "#", "#", " ", " ">>, <<" ", " ", "#", "#", "#", "#", " ", "a">>, <<"#", "#", "#", "#", " ", " ">> }

\* short documents over NoteLines, documents with 0..MaxMainTopics main topics,
\* and documents with one odd heading line before or after a main topic
NoteDocs ==
    { Join(ls, NL) : ls \in SeqsUpTo(NoteLines, MaxDocLines) \ { <<>> } }
    \cup { Join(Repeat(<<"#", "#", "#", " ", "A">>, n) \o tail, NL) :
             n \in 0..MaxMainTopics, tail \in NoteTails }
    \cup { Join(<<odd, <<"#", "#", "#", " ", "B">>>> \o tail, NL) : odd \in OddHeadings, tail \in NoteTails }
    \cup { Join(<<<<"#", "#", "#", " ", "B">>, odd>> \o tail, NL) : odd \in OddHeadings, tail \in NoteTails }

InitNotes ==
    /\ PipelineIdle
    /\ pc = "fn_arg"
    /\ arg \in NoteDocs
    /\ ret = [fn |-> "none"]

ValidateNotes ==
    /\ pc = "fn_arg"
    /\ ret' = [fn |-> "validate_notes_structure", val |-> validate_notes_structure(arg)]
    /\ pc' = "fn_ret"
    /\ UNCHANGED arg
    /\ PipelineUnchanged

ParseNotes ==
    /\ pc = "fn_arg"
    /\ ret' = [fn |-> "parse_notes_hierarchy", val |-> parse_notes_hierarchy(arg)]
    /\ pc' = "fn_ret"
    /\ UNCHANGED arg
    /\ PipelineUnchanged

NotesMetadata ==
    /\ pc = "fn_arg"
    /\ ret' = [fn |-> "get_notes_metadata", val |-> get_notes_metadata(arg)]
    /\ pc' = "fn_ret"
    /\ UNCHANGED arg
    /\ PipelineUnchanged

NextNotes == ValidateNotes \/ ParseNotes \/ NotesMetadata

SpecNotes == InitNotes /\ [][NextNotes]_vars

----------------------------------------------------------------------------
(* modules/action_extractor.py *)

\* printable ASCII characters in code order (without backslash and backquote),
\* for comparisons of str
AsciiChars ==
    <<" ", "!", "\"", "#", "$", "%", "&", "'", "(", ")", "*", "+",
      ",", "-", ".", "/", "0", "1", "2", "3", "4", "5", "6", "7",
      "8", "9", ":", ";", "<", "=", ">", "?", "@", "A", "B", "C",
      "D", "E", "F", "G", "H", "I", "J", "K", "L", "M", "N", "O",
      "P", "Q", "R", "S", "T", "U", "V", "W", "X", "Y", "Z", "[",
      "]", "^", "_", "a", "b", "c", "d", "e", "f", "g",
      "h", "i", "j", "k", "l", "m", "n", "o", "p", "q", "r", "s",
      "t", "u", "v", "w", "x", "y", "z", "{", "|", "}", "~">>

\* the rank of a character in code order
Ord(c) == CHOOSE i \in 1..Len(AsciiChars) : AsciiChars[i] = c

\* a < b for str (lexicographic by character code)
StrLess(a, b) ==
    \E i \in 1..(Len(a) + 1) :
        /\ i <= Len(b)
        /\ \A j \in 1..(i - 1) : a[j] = b[j]
        /\ (i = Len(a) + 1 \/ Ord(a[i]) < Ord(b[i]))

CATEGORY_MARK == <<"#", "#", "#">>
DESCRIPTION_LABEL == <<"-", " ", "*", "*", "D", "e", "s", "c", "r", "i", "p", "t", "i", "o", "n", "*", "*", ":">>
DUE_DATE_LABEL == <<"-", " ", "*", "*", "D", "u", "e", " ", "D", "a", "t", "e", "*", "*", ":">>
PRIORITY_LABEL == <<"-", " ", "*", "*", "P", "r", "i", "o", "r", "i", "t", "y", "*", "*", ":">>
CONTEXT_LABEL == <<"-", " ", "*", "*", "C", "o", "n", "t", "e", "x", "t", "*", "*", ":">>

\* normalize_category without the lower-casing of line 162
normalize_categoryCaseSensitive(category) ==
    LET category_lower == Strip(category) IN
    IF Contains(category_lower, <<"a", "s", "s", "i", "g", "n", "m", "e", "n", "t">>) THEN <<"A", "s", "s", "i", "g", "n", "m", "e", "n", "t">>
    ELSE IF Contains(category_lower, <<"r", "e", "a", "d", "i", "n", "g">>) /\ Contains(category_lower, <<"r", "e", "q", "u", "i", "r", "e", "d">>)
        THEN <<"R", "e", "a", "d", "i", "n", "g", " ", "(", "R", "e", "q", "u", "i", "r", "e", "d", ")">>
    ELSE IF Contains(category_lower, <<"r", "e", "a", "d", "i", "n", "g">>) /\ Contains(category_lower, <<"s", "u", "g", "g", "e", "s", "t", "e", "d">>)
        THEN <<"R", "e", "a", "d", "i", "n", "g", " ", "(", "S", "u", "g", "g", "e", "s", "t", "e", "d", ")">>
    ELSE IF Contains(category_lower, <<"e", "x", "a", "m">>) THEN <<"E", "x", "a", "m">>
    ELSE IF Contains(category_lower, <<"d", "e", "a", "d", "l", "i", "n", "e">>) THEN <<"D", "e", "a", "d", "l", "i", "n", "e">>
    ELSE IF Contains(category_lower, <<"r", "e", "v", "i", "e", "w">>) THEN <<"R", "e", "v", "i", "e", "w", " ", "T", "o", "p", "i", "c">>
    ELSE IF Contains(category_lower, <<"l", "a", "b">>) \/ Contains(category_lower, <<"p", "r", "a", "c", "t", "i", "c", "a", "l">>)
        THEN <<"L", "a", "b", "/", "P", "r", "a", "c", "t", "i", "c", "a", "l">>
    ELSE <<"O", "t", "h", "e", "r">>

\* normalize_category with the 'exam' test moved to the front
normalize_categoryExamFirst(category) ==
    LET category_lower == Strip(Lower(category)) IN
    IF Contains(category_lower, <<"e", "x", "a", "m">>) THEN <<"E", "x", "a", "m">>
    ELSE IF Contains(category_lower, <<"a", "s", "s", "i", "g", "n", "m", "e", "n", "t">>) THEN <<"A", "s", "s", "i", "g", "n", "m", "e", "n", "t">>
    ELSE IF Contains(category_lower, <<"r", "e", "a", "d", "i", "n", "g">>) /\ Contains(category_lower, <<"r", "e", "q", "u", "i", "r", "e", "d">>)
        THEN <<"R", "e", "a", "d", "i", "n", "g", " ", "(", "R", "e", "q", "u", "i", "r", "e", "d", ")">>
    ELSE IF Contains(category_lower, <<"r", "e", "a", "d", "i", "n", "g">>) /\ Contains(category_lower, <<"s", "u", "g", "g", "e", "s", "t", "e", "d">>)
        THEN <<"R", "e", "a", "d", "i", "n", "g", " ", "(", "S", "u", "g", "g", "e", "s", "t", "e", "d", ")">>
    ELSE IF Contains(category_lower, <<"d", "e", "a", "d", "l", "i", "n", "e">>) THEN <<"D", "e", "a", "d", "l", "i", "n", "e">>
    ELSE IF Contains(category_lower, <<"r", "e", "v", "i", "e", "w">>) THEN <<"R", "e", "v", "i", "e", "w", " ", "T", "o", "p", "i", "c">>
    ELSE IF Contains(category_lower, <<"l", "a", "b">>) \/ Contains(category_lower, <<"p", "r", "a", "c", "t", "i", "c", "a", "l">>)
        THEN <<"L", "a", "b", "/", "P", "r", "a", "c", "t", "i", "c", "a", "l">>
    ELSE <<"O", "t", "h", "e", "r">>

\* normalize_category
normalize_category(category) ==
    LET category_lower == Strip(Lower(category)) IN
    IF Contains(category_lower, <<"a", "s", "s", "i", "g", "n", "m", "e", "n", "t">>) THEN <<"A", "s", "s", "i", "g", "n", "m", "e", "n", "t">>
    ELSE IF Contains(category_lower, <<"r", "e", "a", "d", "i", "n", "g">>) /\ Contains(category_lower, <<"r", "e", "q", "u", "i", "r", "e", "d">>)
        THEN <<"R", "e", "a", "d", "i", "n", "g", " ", "(", "R", "e", "q", "u", "i", "r", "e", "d", ")">>
    ELSE IF Contains(category_lower, <<"r", "e", "a", "d", "i", "n", "g">>) /\ Contains(category_lower, <<"s", "u", "g", "g", "e", "s", "t", "e", "d">>)
        THEN <<"R", "e", "a", "d", "i", "n", "g", " ", "(", "S", "u", "g", "g", "e", "s", "t", "e", "d", ")">>
    ELSE IF Contains(category_lower, <<"e", "x", "a", "m">>) THEN <<"E", "x", "a", "m">>
    ELSE IF Contains(category_lower, <<"d", "e", "a", "d", "l", "i", "n", "e">>) THEN <<"D", "e", "a", "d", "l", "i", "n", "e">>
    ELSE IF Contains(category_lower, <<"r", "e", "v", "i", "e", "w">>) THEN <<"R", "e", "v", "i", "e", "w", " ", "T", "o", "p", "i", "c">>
    ELSE IF Contains(category_lower, <<"l", "a", "b">>) \/ Contains(category_lower, <<"p", "r", "a", "c", "t", "i", "c", "a", "l">>)
        THEN <<"L", "a", "b", "/", "P", "r", "a", "c", "t", "i", "c", "a", "l">>
    ELSE <<"O", "t", "h", "e", "r">>

\* normalize_priority
normalize_priority(priority) ==
    LET priority_lower == Strip(Lower(priority)) IN
    IF Contains(priority_lower, <<"h", "i", "g", "h">>) THEN <<"H", "i", "g", "h">>
    ELSE IF Contains(priority_lower, <<"l", "o", "w">>) THEN <<"L", "o", "w">>
    ELSE <<"M", "e", "d", "i", "u", "m">>

\* "if current_item and current_category": an item is open and the category
\* is neither None nor the empty string
CanSaveItem(st) == ~IsNone(st.item) /\ ~IsNone(st.category) /\ Get(st.category) # <<>>

\* action_extractor.py:114-115 and 146-147: the open item gets the category
\* that is current when it is saved
SaveItem(st) ==
    [st EXCEPT !.action_items =
        Append(@, [Get(st.item) EXCEPT !.category = normalize_category(Get(st.category))])]

\* one iteration of the loop of parse_action_items (lines 102-142)
ParseActionLine(st, line) ==
    LET stripped == Strip(line) IN
    IF StartsWith(stripped, CATEGORY_MARK) THEN
        [st EXCEPT !.category = Some(Strip(Drop(stripped, 3)))]
    ELSE IF StartsWith(stripped, DESCRIPTION_LABEL) THEN
        LET s1 == IF CanSaveItem(st) THEN SaveItem(st) ELSE st IN
        [s1 EXCEPT !.item = Some([category |-> <<>>,
                                  description |-> Strip(Drop(stripped, Len(DESCRIPTION_LABEL))),
                                  due_date |-> <<"N", "o", "t", " ", "s", "p", "e", "c", "i", "f", "i", "e", "d">>,
                                  priority |-> <<"M", "e", "d", "i", "u", "m">>,
                                  context |-> <<>>])]
    ELSE IF StartsWith(stripped, DUE_DATE_LABEL) /\ ~IsNone(st.item) THEN
        [st EXCEPT !.item = Some([Get(st.item) EXCEPT
            !.due_date = Strip(Drop(stripped, Len(DUE_DATE_LABEL)))])]
    ELSE IF StartsWith(stripped, PRIORITY_LABEL) /\ ~IsNone(st.item) THEN
        [st EXCEPT !.item = Some([Get(st.item) EXCEPT
            !.priority = normalize_priority(Strip(Drop(stripped, Len(PRIORITY_LABEL))))])]
    ELSE IF StartsWith(stripped, CONTEXT_LABEL) /\ ~IsNone(st.item) THEN
        [st EXCEPT !.item = Some([Get(st.item) EXCEPT
            !.context = StripChar(StripChar(Strip(Drop(stripped, Len(CONTEXT_LABEL))), "\""), "'")])]
    ELSE st

\* the loop over the lines; the state after a line is computed before the
\* loop goes on to the next line
RECURSIVE ParseActionLines(_, _)
ParseActionLines(st, lines) ==
    IF lines = <<>> THEN st
    ELSE LET next == ParseActionLine(st, Head(lines)) IN
         IF next = st /\ Tail(lines) = <<>> THEN st
         ELSE ParseActionLines(next, Tail(lines))

\* parse_action_items
parse_action_items(raw_output) ==
    LET st0 == [action_items |-> <<>>, category |-> None, item |-> None]
        st1 == ParseActionLines(st0, Split(raw_output, "\n"))
    IN IF CanSaveItem(st1) THEN SaveItem(st1).action_items ELSE st1.action_items

\* categorize_by_type: the categories in order of first appearance
RECURSIVE CategoryKeys(_)
CategoryKeys(action_items) ==
    IF action_items = <<>> THEN <<>>
    ELSE LET front == CategoryKeys(SubSeq(action_items, 1, Len(action_items) - 1))
             c == action_items[Len(action_items)].category
         IN IF \E i \in 1..Len(front) : front[i] = c THEN front ELSE Append(front, c)

\* sorted(categorized.keys())
RECURSIVE SortedStrs(_)
SortedStrs(S) ==
    IF S = {} THEN <<>>
    ELSE LET m == CHOOSE x \in S : \A y \in S : x = y \/ StrLess(x, y)
         IN <<m>> \o SortedStrs(S \ {m})

\* the lines format_actions_as_markdown writes for one item (lines 314-319)
FormatItem(item) ==
    <<"-", " ", "*", "*">> \o item.description \o <<"*", "*", "\n">>
    \o <<" ", " ", "-", " ", "D", "u", "e", " ", "D", "a", "t", "e", ":", " ">> \o item.due_date \o NL
    \o <<" ", " ", "-", " ", "P", "r", "i", "o", "r", "i", "t", "y", ":", " ">> \o item.priority \o NL
    \o (IF item.context # <<>> THEN <<" ", " ", "-", " ", "C", "o", "n", "t", "e", "x", "t", ":", " ", "\"">> \o item.context \o <<"\"", "\n">> ELSE <<>>)
    \o NL

RECURSIVE FormatItems(_)
FormatItems(items) ==
    IF items = <<>> THEN <<>> ELSE FormatItem(Head(items)) \o FormatItems(Tail(items))

RECURSIVE FormatCategories(_, _)
FormatCategories(keys, action_items) ==
    IF keys = <<>> THEN <<>>
    ELSE LET category == Head(keys)
             IsIn(item) == item.category = category
         IN <<"#", "#", " ">> \o category \o <<"\n", "\n">>
            \o FormatItems(SelectSeq(action_items, IsIn))
            \o FormatCategories(Tail(keys), action_items)

NO_ACTION_ITEMS_TEXT == <<"N", "o", " ", "a", "c", "t", "i", "o", "n", " ", "i", "t", "e", "m", "s", " ", "i", "d", "e", "n", "t", "i", "f", "i", "e", "d", " ", "i", "n", " ", "t", "h", "i", "s", " ", "l", "e", "c", "t", "u", "r", "e", ".">>

\* format_actions_as_markdown
format_actions_as_markdown(action_items) ==
    IF action_items = <<>> THEN NO_ACTION_ITEMS_TEXT
    ELSE LET keys == CategoryKeys(action_items)
             sorted == SortedStrs({keys[i] : i \in 1..Len(keys)})
         IN <<"#", " ", "A", "c", "t", "i", "o", "n", " ", "I", "t", "e", "m", "s", "\n", "\n">> \o FormatCategories(sorted, action_items)

----------------------------------------------------------------------------
(* Raw outputs given to parse_action_items *)

MaxActionLines == 4

ActionLines ==
    { <<"#", "#", "#", " ", "A", "s", "s", "i", "g", "n", "m", "e", "n", "t", "s">>,
      <<"#", "#", "#", " ", "E", "x", "a", "m">>,
      <<"-", " ", "*", "*", "D", "e", "s", "c", "r", "i", "p", "t", "i", "o", "n", "*", "*", ":", " ", "d">>,
      <<"-", " ", "*", "*", "D", "e", "s", "c", "r", "i", "p", "t", "i", "o", "n", "*", "*", ":", " ", "e">>,
      <<"-", " ", "*", "*", "D", "u", "e", " ", "D", "a", "t", "e", "*", "*", ":", " ", "F", "r", "i">>,
      <<"-", " ", "*", "*", "P", "r", "i", "o", "r", "i", "t", "y", "*", "*", ":", " ", "H", "I", "G", "H">>,
      <<"-", " ", "*", "*", "C", "o", "n", "t", "e", "x", "t", "*", "*", ":", " ", "\"", "q", "\"">>,
      <<"t">> }

ActionDocs == { Join(ls, NL) : ls \in SeqsUpTo(ActionLines, MaxActionLines) \ { <<>> } }

InitActions ==
    /\ PipelineIdle
    /\ pc = "fn_arg"
    /\ arg \in ActionDocs
    /\ ret = [fn |-> "none"]

ParseActions ==
    /\ pc = "fn_arg"
    /\ ret' = [fn |-> "parse_action_items", val |-> parse_action_items(arg)]
    /\ pc' = "fn_ret"
    /\ UNCHANGED arg
    /\ PipelineUnchanged

\* parse_action_items(format_actions_as_markdown(parse_action_items(arg)))
FormatAndReparse ==
    /\ pc = "fn_arg"
    /\ LET items == parse_action_items(arg)
           markdown == format_actions_as_markdown(items)
       IN ret' = [fn |-> "format_and_reparse",
                  val |-> [items |-> items,
                           markdown |-> markdown,
                           reparsed |-> parse_action_items(markdown)]]
    /\ pc' = "fn_ret"
    /\ UNCHANGED arg
    /\ PipelineUnchanged

NextActions == ParseActions \/ FormatAndReparse

SpecActions == InitActions /\ [][NextActions]_vars

----------------------------------------------------------------------------
(* prompts/notes_prompt.py, prompts/actions_prompt.py, modules/llm_processor.py *)

\* the result of str.format or of a function call that may raise
Returned(v) == [ok |-> TRUE, val |-> v]
Raised(e) == [ok |-> FALSE, exc |-> e]

\* the label that precedes the transcript in both templates
TRANSCRIPT_LABEL == <<"T", "R", "A", "N", "S", "C", "R", "I", "P", "T", ":", "\n">>

\* the name of the templates' replacement field
FIELD_NAME == <<"t", "r", "a", "n", "s", "c", "r", "i", "p", "t">>

DecimalDigits == {"0", "1", "2", "3", "4", "5", "6", "7", "8", "9"}

\* s.format(transcript=value): "{{" and "}}" are literal braces, "{transcript}"
\* is replaced, a single brace raises ValueError, a field with an empty or
\* numeric name IndexError (no positional argument), any other name KeyError.
\* Fields are plain names: no attribute, index, conversion or format spec.
\* The text before the first brace is copied as it is.
RECURSIVE FormatStr(_, _)
FormatStr(s, value) ==
    LET braces == {i \in 1..Len(s) : s[i] \in {"{", "}"}}
        Then(piece, rest) ==
            LET r == FormatStr(rest, value) IN
            IF r.ok THEN Returned(piece \o r.val) ELSE r
    IN
    IF braces = {} THEN Returned(s)
    ELSE LET literal == SubSeq(s, 1, Min(braces) - 1)
             t == Drop(s, Min(braces) - 1)
         IN
         IF Head(t) = "{" THEN
             IF Len(t) >= 2 /\ t[2] = "{" THEN Then(literal \o <<"{">>, Drop(t, 2))
             ELSE LET closes == {j \in 2..Len(t) : t[j] = "}"} IN
                  IF closes = {} THEN Raised("ValueError")
                  ELSE LET name == SubSeq(t, 2, Min(closes) - 1) IN
                       IF name = FIELD_NAME THEN Then(literal \o value, Drop(t, Min(closes)))
                       ELSE IF \A i \in 1..Len(name) : name[i] \in DecimalDigits
                       THEN Raised("IndexError")
                       ELSE Raised("KeyError")
         ELSE IF Len(t) >= 2 /\ t[2] = "}" THEN Then(literal \o <<"}">>, Drop(t, 2))
         ELSE Raised("ValueError")

\* s.replace(old, new)
RECURSIVE Replace(_, _, _)
Replace(s, old, new) ==
    LET at == {i \in 1..(Len(s) - Len(old) + 1) : SubSeq(s, i, i + Len(old) - 1) = old} IN
    IF at = {} THEN s
    ELSE SubSeq(s, 1, Min(at) - 1) \o new \o Replace(Drop(s, Min(at) + Len(old) - 1), old, new)

\* notes_prompt.py:8-90  the template: its instructions, then the transcript field
NOTES_PROMPT_TEMPLATE ==
    <<"(notes instructions)">> \o TRANSCRIPT_LABEL \o <<"{">> \o FIELD_NAME
        \o <<"}", "(generate the notes now)">>

\* actions_prompt.py:8-133
ACTIONS_PROMPT_TEMPLATE ==
    <<"(actions instructions)">> \o TRANSCRIPT_LABEL \o <<"{">> \o FIELD_NAME
        \o <<"}", "(extract the action items now)">>

\* get_notes_prompt(transcript, "general")
get_notes_prompt(transcript) == FormatStr(NOTES_PROMPT_TEMPLATE, transcript)

\* get_actions_prompt(transcript, lecture_date); lecture_date is None or a date
get_actions_prompt(transcript, lecture_date) ==
    LET first == FormatStr(ACTIONS_PROMPT_TEMPLATE, transcript) IN
    IF ~first.ok \/ IsNone(lecture_date) \/ Get(lecture_date) = <<>> THEN first
    ELSE FormatStr(
            Replace(first.val,
                    TRANSCRIPT_LABEL \o <<"{">> \o FIELD_NAME \o <<"}">>,
                    <<"LECTURE DATE: ">> \o Get(lecture_date)
                        \o <<"\n", "\n">> \o TRANSCRIPT_LABEL \o <<"{">> \o FIELD_NAME \o <<"}">>),
            transcript)

\* temperatures are in thousandths
NOTES_RECOMMENDED_TEMPERATURE == 300
ACTIONS_RECOMMENDED_TEMPERATURE == 200
NOTES_RECOMMENDED_MAX_TOKENS == 4096
ACTIONS_RECOMMENDED_MAX_TOKENS == 3072
RetryFactorTenths == 8

RetryTemperatureUnchanged(temperature) == temperature

\* temperature * 0.8
RetryTemperature(temperature) == (temperature * RetryFactorTenths) \div 10

NOTES_RETRY_INSTRUCTION == <<"\n", "\n", "(CRITICAL: use the exact markdown format, ### and ####)">>
ACTIONS_RETRY_INSTRUCTION == <<"\n", "\n", "(CRITICAL: use the exact format, include ALL action items)">>

\* call_llm_with_prompt returns (text, None) or (None, "LLM request failed: ...")
LLMText(text) == [text |-> Some(text), error |-> None]
LLMFailure == [text |-> None, error |-> Some(<<"LLM request failed">>)]

\* one call of call_ollama_chat as the stage sees it
LLMCall(prompt, temperature, max_tokens, response) ==
    [prompt |-> prompt, temperature |-> temperature, max_tokens |-> max_tokens,
     response |-> response]

TitleMaxLen == 100
TitleSampleLen == 2000

\* title[:100].rsplit(' ', 1)[0]
RSplitSpaceFirst(s) ==
    LET sp == {i \in 1..Len(s) : s[i] = " "} IN
    IF sp = {} THEN s ELSE SubSeq(s, 1, Max(sp) - 1)

\* the prompt of generate_lecture_title: the first 2000 characters of the transcript
TitlePrompt(transcript) ==
    <<"(title instructions)">>
    \o (IF Len(transcript) > TitleSampleLen THEN SubSeq(transcript, 1, TitleSampleLen)
        ELSE transcript)
    \o <<"(generate only the title)">>

\* generate_lecture_title after the call returned `response`: [title, error]
generate_lecture_title(response) ==
    IF ~IsNone(response.error) THEN [title |-> None, error |-> response.error]
    ELSE LET raw == Get(response.text)
             stripped == StripChar(StripChar(Strip(raw), "\""), "'")
             title == IF raw = <<>> THEN raw
                      ELSE IF Len(stripped) > TitleMaxLen
                      THEN RSplitSpaceFirst(SubSeq(stripped, 1, TitleMaxLen)) \o <<".", ".", ".">>
                      ELSE stripped
         IN [title |-> Some(title), error |-> None]

----------------------------------------------------------------------------
(* modules/audio_processor.py, modules/transcription.py *)

\* a duration in seconds: whole seconds and tenths
Seconds(n) == [int |-> n, frac |-> 0]
DurationLess(d, n) == d.int < n
DurationGreater(d, n) == d.int > n \/ (d.int = n /\ d.frac > 0)

MinAudioSeconds == 5
MaxDurationHours == 8
SecondsPerHour == 3600
SecondsPerMinute == 60
ChunkSeconds == 1800

\* validate_audio_file: [valid, msg]
validate_audio_file(exists, size, duration) ==
    IF ~exists THEN [valid |-> FALSE, msg |-> "Audio file not found"]
    ELSE IF size = 0 THEN [valid |-> FALSE, msg |-> "Audio file is empty"]
    ELSE IF DurationLess(duration, MinAudioSeconds)
        THEN [valid |-> FALSE, msg |-> "Audio is too short"]
    ELSE IF DurationGreater(duration, MaxDurationHours * SecondsPerHour)
        THEN [valid |-> FALSE, msg |-> "Audio is too long"]
    ELSE [valid |-> TRUE, msg |-> ""]

\* format_duration with the minutes taken from the whole duration
format_durationTotalMinutes(seconds) ==
    LET hours == seconds.int \div SecondsPerHour
        minutes == seconds.int \div SecondsPerMinute
        secs == seconds.int % SecondsPerMinute
    IN IF hours > 0
         THEN Digits(hours) \o <<"h", " ">> \o Digits(minutes) \o <<"m", " ">> \o Digits(secs) \o <<"s">>
       ELSE IF minutes > 0
         THEN Digits(minutes) \o <<"m", " ">> \o Digits(secs) \o <<"s">>
       ELSE Digits(secs) \o <<"s">>

\* format_duration
format_duration(seconds) ==
    LET hours == seconds.int \div SecondsPerHour
        minutes == (seconds.int % SecondsPerHour) \div SecondsPerMinute
        secs == seconds.int % SecondsPerMinute
    IN IF hours > 0
         THEN Digits(hours) \o <<"h", " ">> \o Digits(minutes) \o <<"m", " ">> \o Digits(secs) \o <<"s">>
       ELSE IF minutes > 0
         THEN Digits(minutes) \o <<"m", " ">> \o Digits(secs) \o <<"s">>
       ELSE Digits(secs) \o <<"s">>

\* get_audio_chunks: range(0, int(duration), chunk_seconds) with end = min(i + chunk, duration)
get_audio_chunks(duration, chunk_seconds) ==
    LET n == (duration.int + chunk_seconds - 1) \div chunk_seconds IN
    [k \in 1..n |->
        LET start == (k - 1) * chunk_seconds IN
        [start |-> Seconds(start),
         end |-> IF DurationLess(duration, start + chunk_seconds)
                 THEN duration ELSE Seconds(start + chunk_seconds)]]

\* transcribe_audio_chunk: " ".join(segment.text ...).strip()
transcribe_audio_chunk(segments) == Strip(Join(segments, <<" ">>))

\* the number of recognizer calls transcribe_audio makes
TranscribeCalls(duration, chunk_duration) ==
    IF ~DurationGreater(duration, chunk_duration) THEN 1
    ELSE Len(get_audio_chunks(duration, chunk_duration))

\* transcribe_audio, given the segments the recognizer returns on each call
transcribe_audio(duration, chunk_duration, segments) ==
    IF ~DurationGreater(duration, chunk_duration)
    THEN transcribe_audio_chunk(segments[1])
    ELSE Join([k \in 1..Len(get_audio_chunks(duration, chunk_duration)) |->
                  transcribe_audio_chunk(segments[k])], <<" ">>)

MinTranscriptWords == 10

\* validate_transcript with an inclusive repetition test
validate_transcriptRatioInclusive(transcript) ==
    LET words == Words(transcript)
        unique_words == {words[i] : i \in 1..Len(words)}
    IN IF Len(Strip(transcript)) = 0
         THEN [valid |-> FALSE, msg |-> "Transcript is empty"]
       ELSE IF Len(words) < MinTranscriptWords
         THEN [valid |-> FALSE, msg |-> "Transcript is very short"]
       ELSE IF 10 * Cardinality(unique_words) <= Len(words)
         THEN [valid |-> FALSE, msg |-> "Transcript has excessive repetition"]
       ELSE [valid |-> TRUE, msg |-> ""]

\* validate_transcript: [valid, msg]
validate_transcript(transcript) ==
    LET words == Words(transcript)
        unique_words == {words[i] : i \in 1..Len(words)}
    IN IF Len(Strip(transcript)) = 0
         THEN [valid |-> FALSE, msg |-> "Transcript is empty"]
       ELSE IF Len(words) < MinTranscriptWords
         THEN [valid |-> FALSE, msg |-> "Transcript is very short"]
       ELSE IF 10 * Cardinality(unique_words) < Len(words)
         THEN [valid |-> FALSE, msg |-> "Transcript has excessive repetition"]
       ELSE [valid |-> TRUE, msg |-> ""]

----------------------------------------------------------------------------
(* generate_structured_notes and extract_action_items, call by call *)

\* "if error:" and the like: neither None nor empty
Truthy(o) == ~IsNone(o) /\ Get(o) # <<>>

NotesResult(notes, error, metadata) ==
    [notes |-> notes, error |-> error, metadata |-> metadata]

\* generate_structured_notes after its first call (note_formatter.py:54-60, 80-83):
\* the result, or None when the output fails validation and the retry follows
NotesAfterFirstCall(response) ==
    IF Truthy(response.error)
    THEN Some(NotesResult(None, response.error, None))
    ELSE IF validate_notes_structure(Get(response.text)).valid
    THEN Some(NotesResult(response.text, None, Some(get_notes_metadata(Get(response.text)))))
    ELSE None

\* the retry result with only the first validation issue in the warning
NotesAfterRetryCallFirstIssue(response) ==
    IF Truthy(response.error)
    THEN NotesResult(None, Some(<<"Retry failed: ">> \o Get(response.error)), None)
    ELSE LET text == Get(response.text)
             validation == validate_notes_structure(text)
         IN IF ~validation.valid
            THEN NotesResult(Some(text),
                    Some(<<"Warning: Notes structure may be incomplete. Issues: ">>
                         \o Head(validation.errors)),
                    Some(get_notes_metadata(text)))
            ELSE NotesResult(Some(text), None, Some(get_notes_metadata(text)))

\* generate_structured_notes after its retry call (note_formatter.py:72-83)
NotesAfterRetryCall(response) ==
    IF Truthy(response.error)
    THEN NotesResult(None, Some(<<"Retry failed: ">> \o Get(response.error)), None)
    ELSE LET text == Get(response.text)
             validation == validate_notes_structure(text)
         IN IF ~validation.valid
            THEN NotesResult(Some(text),
                    Some(<<"Warning: Notes structure may be incomplete. Issues: ">>
                         \o Join(validation.errors, <<",", " ">>)),
                    Some(get_notes_metadata(text)))
            ELSE NotesResult(Some(text), None, Some(get_notes_metadata(text)))

ActionsResult(items, error, raw) == [items |-> items, error |-> error, raw |-> raw]

NO_ITEMS_IDENTIFIED == <<"n", "o", " ", "a", "c", "t", "i", "o", "n", " ", "i", "t", "e", "m", "s", " ", "i", "d", "e", "n", "t", "i", "f", "i", "e", "d">>
NO_ITEMS == <<"n", "o", " ", "a", "c", "t", "i", "o", "n", " ", "i", "t", "e", "m", "s">>

\* the first call's outcome with the stated phrase matched in the given case only
ActionsAfterFirstCallCaseSensitive(response) ==
    IF Truthy(response.error)
    THEN Some(ActionsResult(None, response.error, <<>>))
    ELSE LET raw_output == Get(response.text) IN
         IF Contains(raw_output, NO_ITEMS_IDENTIFIED)
         THEN Some(ActionsResult(Some(<<>>), None, raw_output))
         ELSE IF Len(parse_action_items(raw_output)) = 0
                 /\ ~Contains(Lower(raw_output), NO_ITEMS)
         THEN None
         ELSE Some(ActionsResult(Some(parse_action_items(raw_output)), None, raw_output))

\* the first call's outcome with a retry whenever no item was parsed
ActionsAfterFirstCallRetryOnEmpty(response) ==
    IF Truthy(response.error)
    THEN Some(ActionsResult(None, response.error, <<>>))
    ELSE LET raw_output == Get(response.text) IN
         IF Contains(Lower(raw_output), NO_ITEMS_IDENTIFIED)
         THEN Some(ActionsResult(Some(<<>>), None, raw_output))
         ELSE IF Len(parse_action_items(raw_output)) = 0
         THEN None
         ELSE Some(ActionsResult(Some(parse_action_items(raw_output)), None, raw_output))

\* extract_action_items after its first call (action_extractor.py:55-66, 83):
\* the result, or None when the retry follows
ActionsAfterFirstCall(response) ==
    IF Truthy(response.error)
    THEN Some(ActionsResult(None, response.error, <<>>))
    ELSE LET raw_output == Get(response.text) IN
         IF Contains(Lower(raw_output), NO_ITEMS_IDENTIFIED)
         THEN Some(ActionsResult(Some(<<>>), None, raw_output))
         ELSE IF Len(parse_action_items(raw_output)) = 0
                 /\ ~Contains(Lower(raw_output), NO_ITEMS)
         THEN None
         ELSE Some(ActionsResult(Some(parse_action_items(raw_output)), None, raw_output))

\* extract_action_items after its retry call (action_extractor.py:78-83)
ActionsAfterRetryCall(response) ==
    IF Truthy(response.error)
    THEN ActionsResult(None, Some(<<"Retry failed: ">> \o Get(response.error)), <<>>)
    ELSE ActionsResult(Some(parse_action_items(Get(response.text))), None, Get(response.text))

----------------------------------------------------------------------------
(* lecture_notes_app.py: the processing run *)

\* what the user typed: a title (None, blank or given) and a date
UserTitles == { None, Some(<<" ">>), Some(<<"T">>) }
UserDates == { None, Some(<<"2024-01-15">>) }

\* audio durations: too short, short, longer than a chunk, too long
PipelineDurations == { Seconds(3), Seconds(10), Seconds(2000), Seconds(30000) }

\* what the recognizer returns on one call: its segments' texts
SegmentLists ==
    { <<>>,
      << <<" ", "a", " ", "b", " ", "c", " ", "d", " ", "e", " ", "f", " ", "g", " ", "h", " ", "i", " ", "j">> >>,
      << <<" ", "a">>, <<" ", "{", "b", "}">> >> }

\* what the text generation client returns
TitleResponses == { LLMFailure, LLMText(<<>>), LLMText(<<" ", "\"", "S", "e", "t", "s", "\"", "\n">>) }

NotesResponses ==
    { LLMFailure,
      LLMText(<<"#", "#", "#", " ", "A", "\n", "#", "#", "#", "#", " ", "a", "\n", "-", " ", "x", "\n", "-", " ", "y">>),
      LLMText(<<"#", "#", "#", " ", "A", "\n", "-", " ", "x">>),
      LLMText(<<"#", "#", "#", "#", " ", "a", "\n", "-", " ", "x", "\n", "-", " ", "y">>),
      LLMText(<<>>) }

ActionsResponses ==
    { LLMFailure,
      LLMText(NO_ACTION_ITEMS_TEXT),
      LLMText(<<"#", "#", "#", " ", "E", "x", "a", "m", "\n", "-", " ", "*", "*", "D", "e", "s", "c", "r", "i", "p", "t", "i", "o", "n", "*", "*", ":", " ", "d", "\n", "-", " ", "*", "*", "P", "r", "i", "o", "r", "i", "t", "y", "*", "*", ":", " ", "H", "I", "G", "H">>),
      LLMText(<<"N", "o", " ", "a", "c", "t", "i", "o", "n", " ", "i", "t", "e", "m", "s">>),
      LLMText(<<"t">>) }

UPLOAD_PATH == "/tmp/upload"
CONVERTED_PATH == "/tmp/upload_16k.wav"

\* cleanup_temp_files(*paths): every path that exists is removed
\* (os.remove is taken to succeed)
RemoveFiles(files, paths) == files \ {paths[i] : i \in 1..Len(paths)}

PathSet(paths) == {paths[i] : i \in 1..Len(paths)}

FnIdle == arg = <<>> /\ ret = [fn |-> "none"]

Init ==
    /\ PipelineIdle
    /\ pc = "idle"
    /\ FnIdle

\* the connection check placed after the session reset
ConnectionFailedAfterReset ==
    /\ pc = "idle"
    /\ session' = [session EXCEPT !.processed = FALSE, !.temp_files = <<>>]
    /\ ui' = <<"ollama_error">>
    /\ pc' = "stopped"
    /\ UNCHANGED <<fs, created, cleaned, trace, llm_calls, loc, arg, ret>>

\* lecture_notes_app.py:111-118  the generation service does not answer
ConnectionFailed ==
    /\ pc = "idle"
    /\ ui' = <<"ollama_error">>
    /\ pc' = "stopped"
    /\ UNCHANGED <<session, fs, created, cleaned, trace, llm_calls, loc, arg, ret>>

\* lecture_notes_app.py:111-122  the button is pressed, the service answers,
\* the session is reset
StartRun ==
    /\ pc = "idle"
    /\ \E title \in UserTitles, date \in UserDates :
          loc' = [NoLocals EXCEPT !.user_metadata =
                    Some([title |-> title, date |-> date, duration |-> None])]
    /\ session' = [session EXCEPT !.processed = FALSE, !.temp_files = <<>>]
    /\ ui' = <<>>
    /\ pc' = "stage1"
    /\ UNCHANGED <<fs, created, cleaned, trace, llm_calls, arg, ret>>

\* lecture_notes_app.py:131-134 with process_audio_input (audio_processor.py:164-169):
\* the upload is saved, converted and measured; the conversion or the
\* measurement may raise, and a failed conversion may leave its output file
Stage1ProcessAudio ==
    /\ pc = "stage1"
    /\ trace' = Append(trace, "audio")
    /\ \/ \E partial \in BOOLEAN :
            /\ fs' = fs \cup {UPLOAD_PATH} \cup (IF partial THEN {CONVERTED_PATH} ELSE {})
            /\ created' = created \cup {UPLOAD_PATH} \cup (IF partial THEN {CONVERTED_PATH} ELSE {})
            /\ loc' = [loc EXCEPT !.exc = Some("RuntimeError: FFmpeg conversion failed")]
            /\ pc' = "except"
            /\ UNCHANGED session
       \/ /\ fs' = fs \cup {UPLOAD_PATH, CONVERTED_PATH}
          /\ created' = created \cup {UPLOAD_PATH, CONVERTED_PATH}
          /\ loc' = [loc EXCEPT !.exc = Some("librosa error")]
          /\ pc' = "except"
          /\ UNCHANGED session
       \/ \E duration \in PipelineDurations :
            /\ fs' = fs \cup {UPLOAD_PATH, CONVERTED_PATH}
            /\ created' = created \cup {UPLOAD_PATH, CONVERTED_PATH}
            /\ loc' = [loc EXCEPT !.original_path = Some(UPLOAD_PATH),
                                  !.converted_path = Some(CONVERTED_PATH),
                                  !.duration = Some(duration)]
            /\ session' = [session EXCEPT
                    !.temp_files = @ \o <<UPLOAD_PATH, CONVERTED_PATH>>,
                    !.audio_duration = duration]
            /\ pc' = "stage1_validate"
    /\ UNCHANGED <<cleaned, ui, llm_calls, arg, ret>>

\* lecture_notes_app.py:137-145  the converted file is validated; it is not
\* empty, since its duration was read
Stage1Validate ==
    /\ pc = "stage1_validate"
    /\ LET converted_path == Get(loc.converted_path)
           outcome == validate_audio_file(converted_path \in fs, 1, Get(loc.duration))
       IN IF ~outcome.valid
          THEN /\ ui' = Append(ui, "audio_validation_failed")
               /\ fs' = RemoveFiles(fs, session.temp_files)
               /\ cleaned' = cleaned \cup PathSet(session.temp_files)
               /\ trace' = Append(trace, "cleanup")
               /\ pc' = "aborted"
               /\ UNCHANGED <<session, loc>>
          ELSE /\ loc' = [loc EXCEPT !.user_metadata = Some([Get(@) EXCEPT
                              !.duration = Some(format_duration(Get(loc.duration)))])]
               /\ session' = [session EXCEPT !.metadata = loc'.user_metadata]
               /\ pc' = "stage2"
               /\ UNCHANGED <<ui, fs, cleaned, trace>>
    /\ UNCHANGED <<created, llm_calls, arg, ret>>

\* user_metadata.get('title') is absent or blank (lecture_notes_app.py:176)
TitleMissing(user_metadata) ==
    ~Truthy(user_metadata.title) \/ Strip(Get(user_metadata.title)) = <<>>

\* lecture_notes_app.py:160-173  transcription, which may raise, and the
\* quality check of the transcript
Stage2Transcribe ==
    /\ pc = "stage2"
    /\ trace' = Append(trace, "transcription")
    /\ \/ /\ loc' = [loc EXCEPT !.exc = Some("RuntimeError: Transcription failed")]
          /\ pc' = "except"
          /\ UNCHANGED <<session, ui>>
       \/ \E segments \in [1..TranscribeCalls(Get(loc.duration), ChunkSeconds) -> SegmentLists] :
            LET transcript == transcribe_audio(Get(loc.duration), ChunkSeconds, segments) IN
            /\ ui' = IF validate_transcript(transcript).valid THEN ui
                     ELSE Append(ui, "transcript_warning")
            /\ session' = [session EXCEPT !.transcript = transcript]
            /\ loc' = [loc EXCEPT !.transcript = Some(transcript)]
            /\ pc' = IF TitleMissing(Get(loc.user_metadata)) THEN "title" ELSE "stage3"
    /\ UNCHANGED <<fs, created, cleaned, llm_calls, arg, ret>>

FALLBACK_TITLE == <<"Lecture ", "(timestamp)">>

\* lecture_notes_app.py:176-189  the title is generated, or the fallback used
Stage2bTitle ==
    /\ pc = "title"
    /\ trace' = Append(trace, "title")
    /\ \E response \in TitleResponses :
        LET result == generate_lecture_title(response)
            title == IF Truthy(result.title) /\ ~Truthy(result.error)
                     THEN Get(result.title) ELSE FALLBACK_TITLE
        IN /\ llm_calls' = <<LLMCall(TitlePrompt(Get(loc.transcript)), 200, 50, response)>>
           /\ loc' = [loc EXCEPT !.user_metadata = Some([Get(@) EXCEPT !.title = Some(title)])]
           /\ session' = [session EXCEPT !.metadata = loc'.user_metadata]
           /\ ui' = IF Truthy(result.title) /\ ~Truthy(result.error)
                    THEN Append(ui, "auto_title") ELSE ui
    /\ pc' = "stage3"
    /\ UNCHANGED <<fs, created, cleaned, arg, ret>>

\* lecture_notes_app.py:201-205 with note_formatter.py:42-60  the first call
\* of generate_structured_notes
NotesFirstCall ==
    /\ pc = "stage3"
    /\ trace' = Append(trace, "notes")
    /\ LET prompt == get_notes_prompt(Get(loc.transcript)).val IN
       \E response \in NotesResponses :
         LET result == NotesAfterFirstCall(response) IN
         /\ llm_calls' = <<LLMCall(prompt, NOTES_RECOMMENDED_TEMPERATURE,
                                   NOTES_RECOMMENDED_MAX_TOKENS, response)>>
         /\ IF IsNone(result)
            THEN /\ loc' = [loc EXCEPT !.prompt = Some(prompt)]
                 /\ pc' = "stage3_retry"
            ELSE /\ loc' = [loc EXCEPT !.prompt = Some(prompt), !.notes = result]
                 /\ pc' = "stage3_store"
    /\ UNCHANGED <<session, fs, created, cleaned, ui, arg, ret>>

\* note_formatter.py:62-83  the retry call of generate_structured_notes
NotesRetryCall ==
    /\ pc = "stage3_retry"
    /\ \E response \in NotesResponses :
         /\ llm_calls' = Append(llm_calls,
                LLMCall(Get(loc.prompt) \o NOTES_RETRY_INSTRUCTION,
                        RetryTemperature(NOTES_RECOMMENDED_TEMPERATURE),
                        NOTES_RECOMMENDED_MAX_TOKENS, response))
         /\ loc' = [loc EXCEPT !.notes = Some(NotesAfterRetryCall(response))]
    /\ pc' = "stage3_store"
    /\ UNCHANGED <<session, fs, created, cleaned, trace, ui, arg, ret>>

\* lecture_notes_app.py:207-212  "if notes_error: st.error(...) else: store"
Stage3Store ==
    /\ pc = "stage3_store"
    /\ LET result == Get(loc.notes) IN
       IF Truthy(result.error)
       THEN /\ ui' = Append(ui, "notes_error")
            /\ UNCHANGED session
       ELSE /\ session' = [session EXCEPT
                    !.notes_markdown = Get(result.notes),
                    !.notes_hierarchy = parse_notes_hierarchy(Get(result.notes))]
            /\ ui' = Append(ui, "notes_success")
    /\ pc' = "stage4"
    /\ UNCHANGED <<fs, created, cleaned, trace, llm_calls, loc, arg, ret>>

\* lecture_notes_app.py:224-228 with action_extractor.py:42-66  the prompt,
\* whose formatting may raise, and the first call of extract_action_items
ActionsFirstCall ==
    /\ pc = "stage4"
    /\ trace' = Append(trace, "actions")
    /\ LET prompt == get_actions_prompt(Get(loc.transcript), Get(loc.user_metadata).date) IN
       IF ~prompt.ok
       THEN /\ loc' = [loc EXCEPT !.exc = Some(prompt.exc)]
            /\ pc' = "except"
            /\ UNCHANGED llm_calls
       ELSE \E response \in ActionsResponses :
              LET result == ActionsAfterFirstCall(response) IN
              /\ llm_calls' = <<LLMCall(prompt.val, ACTIONS_RECOMMENDED_TEMPERATURE,
                                        ACTIONS_RECOMMENDED_MAX_TOKENS, response)>>
              /\ IF IsNone(result)
                 THEN /\ loc' = [loc EXCEPT !.prompt = Some(prompt.val)]
                      /\ pc' = "stage4_retry"
                 ELSE /\ loc' = [loc EXCEPT !.prompt = Some(prompt.val), !.actions = result]
                      /\ pc' = "stage4_store"
    /\ UNCHANGED <<session, fs, created, cleaned, ui, arg, ret>>

\* action_extractor.py:68-83  the retry call of extract_action_items
ActionsRetryCall ==
    /\ pc = "stage4_retry"
    /\ \E response \in ActionsResponses :
         /\ llm_calls' = Append(llm_calls,
                LLMCall(Get(loc.prompt) \o ACTIONS_RETRY_INSTRUCTION,
                        RetryTemperature(ACTIONS_RECOMMENDED_TEMPERATURE),
                        ACTIONS_RECOMMENDED_MAX_TOKENS, response))
         /\ loc' = [loc EXCEPT !.actions = Some(ActionsAfterRetryCall(response))]
    /\ pc' = "stage4_store"
    /\ UNCHANGED <<session, fs, created, cleaned, trace, ui, arg, ret>>

\* lecture_notes_app.py:230-235  "if actions_error: st.error(...) else: store"
Stage4Store ==
    /\ pc = "stage4_store"
    /\ LET result == Get(loc.actions) IN
       IF Truthy(result.error)
       THEN /\ ui' = Append(ui, "actions_error")
            /\ UNCHANGED session
       ELSE /\ session' = [session EXCEPT
                    !.action_items = Get(result.items),
                    !.actions_markdown = format_actions_as_markdown(Get(result.items))]
            /\ ui' = Append(ui, "actions_success")
    /\ pc' = "complete"
    /\ UNCHANGED <<fs, created, cleaned, trace, llm_calls, loc, arg, ret>>

\* lecture_notes_app.py:240-243  the processed flag, then the cleanup
ProcessingComplete ==
    /\ pc = "complete"
    /\ session' = [session EXCEPT !.processed = TRUE]
    /\ fs' = RemoveFiles(fs, session.temp_files)
    /\ cleaned' = cleaned \cup PathSet(session.temp_files)
    /\ trace' = Append(trace, "cleanup")
    /\ pc' = "summary"
    /\ UNCHANGED <<created, ui, llm_calls, loc, arg, ret>>

\* lecture_notes_app.py:246-252  the summary; len(action_items) raises
\* TypeError when action_items is None
ShowSummary ==
    /\ pc = "summary"
    /\ IF IsNone(Get(loc.actions).items)
       THEN /\ loc' = [loc EXCEPT !.exc = Some("TypeError")]
            /\ pc' = "except"
            /\ UNCHANGED ui
       ELSE /\ ui' = Append(ui, "summary")
            /\ pc' = "done"
            /\ UNCHANGED loc
    /\ UNCHANGED <<session, fs, created, cleaned, trace, llm_calls, arg, ret>>

\* lecture_notes_app.py:254-260  except Exception: the error is shown, the
\* registered files are cleaned up if there are any, the script stops
ExceptHandler ==
    /\ pc = "except"
    /\ ui' = Append(ui, "processing_failed")
    /\ IF session.temp_files # <<>>
       THEN /\ fs' = RemoveFiles(fs, session.temp_files)
            /\ cleaned' = cleaned \cup PathSet(session.temp_files)
            /\ trace' = Append(trace, "cleanup")
       ELSE UNCHANGED <<fs, cleaned, trace>>
    /\ pc' = "failed"
    /\ UNCHANGED <<session, created, llm_calls, loc, arg, ret>>

Next ==
    \/ ConnectionFailed
    \/ StartRun
    \/ Stage1ProcessAudio
    \/ Stage1Validate
    \/ Stage2Transcribe
    \/ Stage2bTitle
    \/ NotesFirstCall
    \/ NotesRetryCall
    \/ Stage3Store
    \/ ActionsFirstCall
    \/ ActionsRetryCall
    \/ Stage4Store
    \/ ProcessingComplete
    \/ ShowSummary
    \/ ExceptHandler

Spec == Init /\ [][Next]_vars

\* the run has ended
RunEnded == pc \in {"done", "aborted", "failed"}

----------------------------------------------------------------------------
(* generate_structured_notes on its own: a transcript, and what the text *)
(* generation client answers to the first call and to the retry           *)

GenerateTranscripts == { <<"a", " ", "b">>, <<"a", " ", "{", "b", "}">> }

FirstNotesResponses == NotesResponses

RetryNotesResponses == { LLMFailure } \cup { LLMText(doc) : doc \in NoteDocs }

InitGenerate ==
    /\ PipelineIdle
    /\ pc = "fn_arg"
    /\ arg \in GenerateTranscripts
    /\ ret = [fn |-> "none"]

\* note_formatter.py:42-60, 80-83
GenerateNotesFirstCall ==
    /\ pc = "fn_arg"
    /\ \E response \in FirstNotesResponses :
         LET result == NotesAfterFirstCall(response) IN
         /\ llm_calls' = <<LLMCall(get_notes_prompt(arg).val, NOTES_RECOMMENDED_TEMPERATURE,
                                   NOTES_RECOMMENDED_MAX_TOKENS, response)>>
         /\ IF IsNone(result)
            THEN /\ pc' = "fn_retry"
                 /\ UNCHANGED ret
            ELSE /\ pc' = "fn_ret"
                 /\ ret' = [fn |-> "generate_structured_notes", val |-> Get(result)]
    /\ UNCHANGED <<session, fs, created, cleaned, trace, ui, loc, arg>>

\* note_formatter.py:62-83
GenerateNotesRetryCall ==
    /\ pc = "fn_retry"
    /\ \E response \in RetryNotesResponses :
         /\ llm_calls' = Append(llm_calls,
                LLMCall(get_notes_prompt(arg).val \o NOTES_RETRY_INSTRUCTION,
                        RetryTemperature(NOTES_RECOMMENDED_TEMPERATURE),
                        NOTES_RECOMMENDED_MAX_TOKENS, response))
         /\ ret' = [fn |-> "generate_structured_notes", val |-> NotesAfterRetryCall(response)]
    /\ pc' = "fn_ret"
    /\ UNCHANGED <<session, fs, created, cleaned, trace, ui, loc, arg>>

NextGenerate == GenerateNotesFirstCall \/ GenerateNotesRetryCall

SpecGenerate == InitGenerate /\ [][NextGenerate]_vars

----------------------------------------------------------------------------
(* get_actions_prompt and extract_action_items on their own: a transcript, *)
(* a lecture date, and what the text generation client answers             *)

ExtractTranscripts == { <<"a", " ", "b">>, <<"a", " ", "{", "b", "}">>, <<"{", "t", "r", "a", "n", "s", "c", "r", "i", "p", "t", "}">> }

ExtractDates == { None, Some(<<>>), Some(<<"2", "0", "2", "4", "-", "0", "1", "-", "1", "5">>) }

\* texts the client may answer with: the stated phrase in two letter cases, the
\* phrase next to items, the shorter phrase, items, free text, nothing
ExtractTexts ==
    { NO_ACTION_ITEMS_TEXT,
      <<"#", "#", "#", " ", "E", "x", "a", "m", "\n", "-", " ", "*", "*", "D", "e", "s", "c", "r", "i", "p", "t", "i", "o", "n", "*", "*", ":", " ", "d", "\n", "N", "O", " ", "A", "C", "T", "I", "O", "N", " ", "I", "T", "E", "M", "S", " ", "I", "D", "E", "N", "T", "I", "F", "I", "E", "D">>,
      <<"N", "o", " ", "a", "c", "t", "i", "o", "n", " ", "i", "t", "e", "m", "s">>,
      <<"#", "#", "#", " ", "E", "x", "a", "m", "\n", "-", " ", "*", "*", "D", "e", "s", "c", "r", "i", "p", "t", "i", "o", "n", "*", "*", ":", " ", "d", "\n", "-", " ", "*", "*", "P", "r", "i", "o", "r", "i", "t", "y", "*", "*", ":", " ", "H", "I", "G", "H">>,
      <<"#", "#", "#", " ", "E", "x", "a", "m", "\n", "#", "#", "#", " ", "L", "a", "b">>,
      <<"t">>,
      <<>> }

ExtractResponses == { LLMFailure } \cup { LLMText(text) : text \in ExtractTexts }

InitExtract ==
    /\ PipelineIdle
    /\ pc = "fn_arg"
    /\ arg \in [transcript : ExtractTranscripts, lecture_date : ExtractDates]
    /\ ret = [fn |-> "none"]

\* actions_prompt.py:136-156
GetActionsPrompt ==
    /\ pc = "fn_arg"
    /\ ret' = [fn |-> "get_actions_prompt",
               val |-> get_actions_prompt(arg.transcript, arg.lecture_date)]
    /\ pc' = "fn_ret"
    /\ UNCHANGED arg
    /\ PipelineUnchanged

\* action_extractor.py:42-66, 83  the prompt, whose formatting may raise, and
\* the first call
ExtractFirstCall ==
    /\ pc = "fn_arg"
    /\ LET prompt == get_actions_prompt(arg.transcript, arg.lecture_date) IN
       IF ~prompt.ok
       THEN /\ ret' = [fn |-> "extract_action_items", val |-> prompt]
            /\ pc' = "fn_ret"
            /\ UNCHANGED llm_calls
       ELSE \E response \in ExtractResponses :
              LET result == ActionsAfterFirstCall(response) IN
              /\ llm_calls' = <<LLMCall(prompt.val, ACTIONS_RECOMMENDED_TEMPERATURE,
                                        ACTIONS_RECOMMENDED_MAX_TOKENS, response)>>
              /\ IF IsNone(result)
                 THEN /\ pc' = "fn_retry"
                      /\ UNCHANGED ret
                 ELSE /\ pc' = "fn_ret"
                      /\ ret' = [fn |-> "extract_action_items",
                                 val |-> Returned(Get(result))]
    /\ UNCHANGED <<session, fs, created, cleaned, trace, ui, loc, arg>>

\* action_extractor.py:68-83
ExtractRetryCall ==
    /\ pc = "fn_retry"
    /\ \E response \in ExtractResponses :
         /\ llm_calls' = Append(llm_calls,
                LLMCall(llm_calls[1].prompt \o ACTIONS_RETRY_INSTRUCTION,
                        RetryTemperature(ACTIONS_RECOMMENDED_TEMPERATURE),
                        ACTIONS_RECOMMENDED_MAX_TOKENS, response))
         /\ ret' = [fn |-> "extract_action_items",
                    val |-> Returned(ActionsAfterRetryCall(response))]
    /\ pc' = "fn_ret"
    /\ UNCHANGED <<session, fs, created, cleaned, trace, ui, loc, arg>>

NextExtract == GetActionsPrompt \/ ExtractFirstCall \/ ExtractRetryCall

SpecExtract == InitExtract /\ [][NextExtract]_vars

----------------------------------------------------------------------------
(* Several runs in one session: the button is pressed again after a run   *)
(* that completed with a transcript, notes and action items stored         *)

MaxRuns == 2

RERUN_TITLE == <<"T">>
RERUN_TRANSCRIPT == <<"a", " ", "b", " ", "c", " ", "d", " ", "e", " ", "f", " ", "g", " ", "h", " ", "i", " ", "j">>

\* the marks left in the trace by the earlier runs of the session
RunMarks(stages) == SelectSeq(stages, LAMBDA stage : stage = "rerun")

\* the run just completed was given a title and left all its artifacts
CompletedFullRun ==
    /\ pc = "done"
    /\ Get(session.metadata).title = Some(RERUN_TITLE)
    /\ session.transcript = RERUN_TRANSCRIPT
    /\ session.notes_markdown # <<>>
    /\ session.action_items # <<>>

\* Streamlit runs the script again from the top: st.session_state is kept
\* (lecture_notes_app.py:67-84 leave existing keys alone), the script's local
\* variables and the page are new
Rerun ==
    /\ CompletedFullRun
    /\ Len(RunMarks(trace)) + 1 < MaxRuns
    /\ trace' = Append(RunMarks(trace), "rerun")
    /\ loc' = NoLocals
    /\ ui' = <<>>
    /\ llm_calls' = <<>>
    /\ created' = {}
    /\ cleaned' = {}
    /\ pc' = "idle"
    /\ UNCHANGED <<session, fs, arg, ret>>

NextRuns == Next \/ Rerun

SpecRuns == Init /\ [][NextRuns]_vars

----------------------------------------------------------------------------
(* normalize_category on its own: category.lower().strip() and the keyword
   tests of action_extractor.py:152-179 *)

\* the values the function returns (lines 165, 167, 169, 171, 173, 175, 177, 179)
CATEGORIES ==
    { <<"A", "s", "s", "i", "g", "n", "m", "e", "n", "t">>, <<"R", "e", "a", "d", "i", "n", "g", " ", "(", "R", "e", "q", "u", "i", "r", "e", "d", ")">>, <<"R", "e", "a", "d", "i", "n", "g", " ", "(", "S", "u", "g", "g", "e", "s", "t", "e", "d", ")">>, <<"E", "x", "a", "m">>,
      <<"D", "e", "a", "d", "l", "i", "n", "e">>, <<"R", "e", "v", "i", "e", "w", " ", "T", "o", "p", "i", "c">>, <<"L", "a", "b", "/", "P", "r", "a", "c", "t", "i", "c", "a", "l">>, <<"O", "t", "h", "e", "r">> }

MaxCategoryWords == 2

\* the pieces "### ..." headings are made of: the names themselves, the
\* keywords in lower, upper and mixed case, padded and plain, and other text
CategoryWords ==
    CATEGORIES \cup
    { <<"a", "s", "s", "i", "g", "n", "m", "e", "n", "t">>, <<"r", "e", "a", "d", "i", "n", "g">>, <<"r", "e", "q", "u", "i", "r", "e", "d">>, <<"s", "u", "g", "g", "e", "s", "t", "e", "d">>, <<"e", "x", "a", "m">>, <<"d", "e", "a", "d", "l", "i", "n", "e">>,
      <<"r", "e", "v", "i", "e", "w">>, <<"l", "a", "b">>, <<"p", "r", "a", "c", "t", "i", "c", "a", "l">>, <<"o", "t", "h", "e", "r">>, <<"E", "X", "A", "M">>, <<"R", "e", "a", "d", "i", "n", "g", "s">>, <<"R", "E", "Q", "U", "I", "R", "E", "D">>,
      <<" ", " ", "L", "a", "b", " ">>, <<"\t", "D", "e", "a", "d", "L", "i", "n", "e", "\n">>, <<"H", "o", "m", "e", "w", "o", "r", "k">>, <<"(", "x", ")">>, <<" ">> }

CategoryInputs ==
    { Join(words, <<" ">>) : words \in SeqsUpTo(CategoryWords, MaxCategoryWords) }

InitCategory ==
    /\ PipelineIdle
    /\ pc = "fn_arg"
    /\ arg \in CategoryInputs
    /\ ret = [fn |-> "none"]

\* action_extractor.py:152-179
NormalizeCategory ==
    /\ pc = "fn_arg"
    /\ ret' = [fn |-> "normalize_category", val |-> normalize_category(arg)]
    /\ pc' = "fn_ret"
    /\ UNCHANGED arg
    /\ PipelineUnchanged

\* the returned category is normalized again (an item's stored category read
\* back through the function)
NormalizeCategoryAgain ==
    /\ pc = "fn_ret"
    /\ ret.fn = "normalize_category"
    /\ arg' = ret.val
    /\ ret' = [fn |-> "normalize_category_again", val |-> normalize_category(ret.val)]
    /\ pc' = "fn_ret"
    /\ PipelineUnchanged

NextCategory == NormalizeCategory \/ NormalizeCategoryAgain

SpecCategory == InitCategory /\ [][NextCategory]_vars

----------------------------------------------------------------------------
(* sort_actions_by_priority: sorted(action_items, key=...) of
   action_extractor.py:344-356 *)

\* priority_order.get(x['priority'], 3)
PriorityKey(item) ==
    IF item.priority = <<"H", "i", "g", "h">> THEN 0
    ELSE IF item.priority = <<"M", "e", "d", "i", "u", "m">> THEN 1
    ELSE IF item.priority = <<"L", "o", "w">> THEN 2
    ELSE 3

\* the place of one more item in a list already in key order: behind every
\* item whose key is not greater (sorted() is stable)
InsertByKey(done, item) ==
    LET n == Cardinality({ i \in 1..Len(done) : PriorityKey(done[i]) <= PriorityKey(item) }) IN
    SubSeq(done, 1, n) \o <<item>> \o SubSeq(done, n + 1, Len(done))

\* the place in front of the items of equal key, as an unstable sort may choose
InsertByKeyBeforeEqual(done, item) ==
    LET n == Cardinality({ i \in 1..Len(done) : PriorityKey(done[i]) < PriorityKey(item) }) IN
    SubSeq(done, 1, n) \o <<item>> \o SubSeq(done, n + 1, Len(done))

RECURSIVE SortedByKey(_)
SortedByKey(items) ==
    IF items = <<>> THEN <<>>
    ELSE InsertByKey(SortedByKey(SubSeq(items, 1, Len(items) - 1)), items[Len(items)])

RECURSIVE SortedByKeyUnstable(_)
SortedByKeyUnstable(items) ==
    IF items = <<>> THEN <<>>
    ELSE InsertByKeyBeforeEqual(SortedByKeyUnstable(SubSeq(items, 1, Len(items) - 1)),
                                items[Len(items)])

sort_actions_by_priorityUnstable(action_items) == SortedByKeyUnstable(action_items)

\* sort_actions_by_priority
sort_actions_by_priority(action_items) == SortedByKey(action_items)

MaxSortItems == 4

\* priorities as parse_action_items stores them, and one the dict has no key for
SortPriorities == { <<"H", "i", "g", "h">>, <<"M", "e", "d", "i", "u", "m">>, <<"L", "o", "w">>, <<"h", "i", "g", "h">> }

SortDescriptions == { <<"d">>, <<"e">> }

SortItem(description, priority) ==
    [category |-> <<"E", "x", "a", "m">>, description |-> description,
     due_date |-> <<"N", "o", "t", " ", "s", "p", "e", "c", "i", "f", "i", "e", "d">>, priority |-> priority, context |-> <<>>]

SortItems == { SortItem(description, priority) :
                 description \in SortDescriptions, priority \in SortPriorities }

InitSort ==
    /\ PipelineIdle
    /\ pc = "fn_arg"
    /\ arg \in SeqsUpTo(SortItems, MaxSortItems)
    /\ ret = [fn |-> "none"]

\* action_extractor.py:344-356
SortActions ==
    /\ pc = "fn_arg"
    /\ ret' = [fn |-> "sort_actions_by_priority", val |-> sort_actions_by_priority(arg)]
    /\ pc' = "fn_ret"
    /\ UNCHANGED arg
    /\ PipelineUnchanged

\* the sorted list is sorted once more
SortActionsAgain ==
    /\ pc = "fn_ret"
    /\ ret.fn = "sort_actions_by_priority"
    /\ arg' = ret.val
    /\ ret' = [fn |-> "sort_actions_by_priority_again",
               val |-> sort_actions_by_priority(ret.val)]
    /\ pc' = "fn_ret"
    /\ PipelineUnchanged

NextSort == SortActions \/ SortActionsAgain

SpecSort == InitSort /\ [][NextSort]_vars

----------------------------------------------------------------------------
(* format_duration on whole numbers of seconds: audio_processor.py:223-242 *)

MaxWholeSeconds == 7325

\* every duration up to two hours and some, and a few of ten hours and more
WholeDurations ==
    { Seconds(n) : n \in (0..MaxWholeSeconds) \cup { 35999, 36000, 86399, 86400, 360000 } }

InitDuration ==
    /\ PipelineIdle
    /\ pc = "fn_arg"
    /\ arg \in WholeDurations
    /\ ret = [fn |-> "none"]

\* audio_processor.py:223-242
FormatDuration ==
    /\ pc = "fn_arg"
    /\ ret' = [fn |-> "format_duration", val |-> format_duration(arg)]
    /\ pc' = "fn_ret"
    /\ UNCHANGED arg
    /\ PipelineUnchanged

NextDuration == FormatDuration

SpecDuration == InitDuration /\ [][NextDuration]_vars

----------------------------------------------------------------------------
(* validate_transcript on its own: transcription.py:218-240 *)

MaxTranscriptWords == 50

\* the words a transcript is made of
WordPool == <<<<"a">>, <<"b", "e">>, <<"c">>, <<"d">>, <<"e">>, <<"f">>, <<"g">>, <<"h">>, <<"i">>, <<"j">>, <<"k">>>>

WordSeparators == { <<" ">>, <<" ", "\n">> }

\* n words of which the first distinct - 1 are different from each other and
\* from the one word that fills the rest
RepetitiveTranscript(n, distinct, sep) ==
    Join([i \in 1..n |-> IF i < distinct THEN WordPool[i + 1] ELSE WordPool[1]], sep)

TranscriptInputs ==
    { RepetitiveTranscript(n, distinct, sep) :
        n \in 0..MaxTranscriptWords, distinct \in 1..Len(WordPool), sep \in WordSeparators }
    \cup { <<" ">>, <<" ", "\n", "\t", " ">>, <<" ", "a", " ", "b", " ", "c", " ", "d", " ", "e", " ", "f", " ", "g", " ", "h", " ", "i", " ", "j", " ">>, <<"\n", "a", " ", "b", " ", "c", " ", "d", " ", "e", " ", "f", " ", "g", " ", "h", " ", "i", "\n">> }

InitTranscript ==
    /\ PipelineIdle
    /\ pc = "fn_arg"
    /\ arg \in TranscriptInputs
    /\ ret = [fn |-> "none"]

\* transcription.py:218-240
ValidateTranscript ==
    /\ pc = "fn_arg"
    /\ ret' = [fn |-> "validate_transcript", val |-> validate_transcript(arg)]
    /\ pc' = "fn_ret"
    /\ UNCHANGED arg
    /\ PipelineUnchanged

NextTranscript == ValidateTranscript

SpecTranscript == InitTranscript /\ [][NextTranscript]_vars

----------------------------------------------------------------------------
(* parse_action_items on one category heading followed by item blocks:
   action_extractor.py:86-149 *)

MaxItemBlocks == 2

BlockHeadings == { <<"#", "#", "#", " ", "E", "x", "a", "m">>, <<" ", " ", "#", "#", "#", " ", "l", "a", "b", " ", "w", "o", "r", "k">> }

\* the text after each field label; None when the block has no such line
BlockDescriptions == { <<"d">>, <<"e", " ", "f">> }
BlockDueDates == { None, Some(<<"F", "r", "i">>) }
BlockPriorities == { None, Some(<<"H", "I", "G", "H">>), Some(<<"s", "o", "o", "n">>) }
BlockContexts == { None, Some(<<"\"", "q", "\"">>), Some(<<"'", "q", "'">>), Some(<<"'", "\"", "q", "\"", "'">>) }

ItemBlocks ==
    [description : BlockDescriptions, due_date : BlockDueDates,
     priority : BlockPriorities, context : BlockContexts]

\* the lines of one item block
BlockLines(block) ==
    <<DESCRIPTION_LABEL \o <<" ">> \o block.description>>
    \o (IF IsNone(block.due_date) THEN <<>>
        ELSE <<DUE_DATE_LABEL \o <<" ">> \o Get(block.due_date)>>)
    \o (IF IsNone(block.priority) THEN <<>>
        ELSE <<PRIORITY_LABEL \o <<" ">> \o Get(block.priority)>>)
    \o (IF IsNone(block.context) THEN <<>>
        ELSE <<CONTEXT_LABEL \o <<" ">> \o Get(block.context)>>)

RECURSIVE BlocksLines(_)
BlocksLines(blocks) ==
    IF blocks = <<>> THEN <<>> ELSE BlockLines(Head(blocks)) \o BlocksLines(Tail(blocks))

\* the raw markdown: the heading line and the lines of the blocks
BlocksMarkdown(doc) == Join(<<doc.heading>> \o BlocksLines(doc.blocks), NL)

InitBlocks ==
    /\ PipelineIdle
    /\ pc = "fn_arg"
    /\ arg \in [heading : BlockHeadings,
                blocks : SeqsUpTo(ItemBlocks, MaxItemBlocks) \ { <<>> }]
    /\ ret = [fn |-> "none"]

\* action_extractor.py:86-149
ParseBlocks ==
    /\ pc = "fn_arg"
    /\ ret' = [fn |-> "parse_action_items", val |-> parse_action_items(BlocksMarkdown(arg))]
    /\ pc' = "fn_ret"
    /\ UNCHANGED arg
    /\ PipelineUnchanged

NextBlocks == ParseBlocks

SpecBlocks == InitBlocks /\ [][NextBlocks]_vars

----------------------------------------------------------------------------
(* transcribe_audio and get_audio_chunks on their own: transcription.py:34-53,
   101-159 *)

MaxChunks == 3

\* durations in seconds and tenths, around the multiples of the chunk length
ChunkDurationOffsets == { [int |-> 0, frac |-> 0], [int |-> 0, frac |-> 5],
                          [int |-> 1, frac |-> 0], [int |-> 900, frac |-> 2] }

TranscribeDurations ==
    { Seconds(10), Seconds(ChunkSeconds) }
    \cup { [int |-> k * ChunkSeconds + offset.int, frac |-> offset.frac] :
             k \in 1..(MaxChunks - 1), offset \in ChunkDurationOffsets }

\* what the recognizer returns for one window: its segments' texts
ChunkSegments == { <<>>, << <<" ", "a">> >>, << <<" ", "b">>, <<" ", "c", ".">> >>, << <<" ">> >> }

InitTranscribe ==
    /\ PipelineIdle
    /\ pc = "fn_arg"
    /\ \E duration \in TranscribeDurations :
         arg \in [duration : { duration },
                  segments : [1..TranscribeCalls(duration, ChunkSeconds) -> ChunkSegments]]
    /\ ret = [fn |-> "none"]

\* transcription.py:34-53
GetAudioChunks ==
    /\ pc = "fn_arg"
    /\ ret' = [fn |-> "get_audio_chunks", val |-> get_audio_chunks(arg.duration, ChunkSeconds)]
    /\ pc' = "fn_ret"
    /\ UNCHANGED arg
    /\ PipelineUnchanged

\* transcription.py:101-159
TranscribeAudio ==
    /\ pc = "fn_arg"
    /\ ret' = [fn |-> "transcribe_audio",
               val |-> transcribe_audio(arg.duration, ChunkSeconds, arg.segments)]
    /\ pc' = "fn_ret"
    /\ UNCHANGED arg
    /\ PipelineUnchanged

NextTranscribe == GetAudioChunks \/ TranscribeAudio

SpecTranscribe == InitTranscribe /\ [][NextTranscribe]_vars

----------------------------------------------------------------------------
(* generate_lecture_title and the fallback of stage 2b:
   llm_processor.py:222-241, lecture_notes_app.py:176-189 *)

MaxTitleChars == 104

\* where the model's output has its spaces
TitleSpaces == { {}, {8}, {8, 50}, {99}, {100, 101} }

\* an output of n characters
TitleOutput(n, spaces) == [i \in 1..n |-> IF i \in spaces THEN " " ELSE "x"]

TitleOutputs ==
    { TitleOutput(n, spaces) : n \in 0..MaxTitleChars, spaces \in TitleSpaces }
    \cup { <<" ", "\"", "S", "e", "t", "s", " ", "a", "n", "d", " ", "m", "a", "p", "s", "\"", "\n">>, <<"\"", "\"">>, <<"'", "x", "'">>, <<" ", "\n">> }

TitleCallResponses == { LLMFailure } \cup { LLMText(text) : text \in TitleOutputs }

InitTitle ==
    /\ PipelineIdle
    /\ pc = "fn_arg"
    /\ arg \in TitleCallResponses
    /\ ret = [fn |-> "none"]

\* llm_processor.py:222-241  the call has returned `arg`
GenerateLectureTitle ==
    /\ pc = "fn_arg"
    /\ ret' = [fn |-> "generate_lecture_title", val |-> generate_lecture_title(arg)]
    /\ pc' = "fn_ret"
    /\ UNCHANGED arg
    /\ PipelineUnchanged

\* lecture_notes_app.py:183-189  the generated title, or the fallback
AutoTitle ==
    /\ pc = "fn_ret"
    /\ ret.fn = "generate_lecture_title"
    /\ ret' = [fn |-> "auto_title",
               val |-> [ret.val EXCEPT !.title =
                           IF Truthy(ret.val.title) /\ ~Truthy(ret.val.error)
                           THEN ret.val.title ELSE Some(FALLBACK_TITLE)]]
    /\ pc' = "fn_ret"
    /\ UNCHANGED arg
    /\ PipelineUnchanged

NextTitle == GenerateLectureTitle \/ AutoTitle

SpecTitle == InitTitle /\ [][NextTitle]_vars

----------------------------------------------------------------------------
(* Properties *)

\* the k-th smallest element of a set of numbers
Kth(S, k) == CHOOSE i \in S : Cardinality({j \in S : j <= i}) = k

ArgLines == Split(arg, "\n")

\* a heading line in the plain form: marker at column 0, then a title
IsMainHeading(line) == StartsWith(line, MAIN_MARK) /\ Strip(Drop(line, 4)) # <<>>
IsSubHeading(line) == StartsWith(line, SUB_MARK) /\ Strip(Drop(line, 5)) # <<>>

\* every line that looks like a heading to the pattern scan or to the line scan
\* is a heading in the plain form
HeadingsPlain(lines) ==
    \A i \in 1..Len(lines) :
        /\ (MainTopicRegex(lines[i]) \/ StartsWith(Strip(lines[i]), MAIN_MARK))
              => IsMainHeading(lines[i])
        /\ (SubtopicRegex(lines[i]) \/ StartsWith(Strip(lines[i]), SUB_MARK))
              => IsSubHeading(lines[i])

MainIdx(lines) == {i \in 1..Len(lines) : IsMainHeading(lines[i])}
SubIdx(lines) == {i \in 1..Len(lines) : IsSubHeading(lines[i])}

\* no subtopic heading stands before the first main-topic heading
SubsUnderMains(lines) ==
    \A j \in SubIdx(lines) : \E i \in MainIdx(lines) : i < j

WellFormedNotes(lines) == HeadingsPlain(lines) /\ SubsUnderMains(lines)

\* the subtopic heading lines under the i-th main-topic heading
SubIdxUnder(lines, i) ==
    LET k == Cardinality(MainIdx(lines))
        lo == Kth(MainIdx(lines), i)
        hi == IF i < k THEN Kth(MainIdx(lines), i + 1) ELSE Len(lines) + 1
    IN {j \in SubIdx(lines) : lo < j /\ j < hi}

\* C7: for well-formed notes with k main-topic headings and n_i subtopic headings
\* under the i-th, parse_notes_hierarchy returns exactly k main topics, the i-th
\* with exactly n_i subtopics, topic and subtopic titles in document order.
C7_ParseCountsAndOrder ==
    (ret.fn = "parse_notes_hierarchy" /\ WellFormedNotes(ArgLines)) =>
        LET lines == ArgLines
            k == Cardinality(MainIdx(lines))
        IN /\ Len(ret.val) = k
           /\ \A i \in 1..k :
                /\ ret.val[i].title = Strip(Drop(lines[Kth(MainIdx(lines), i)], 4))
                /\ Len(ret.val[i].subtopics) = Cardinality(SubIdxUnder(lines, i))
                /\ \A m \in 1..Cardinality(SubIdxUnder(lines, i)) :
                     ret.val[i].subtopics[m].title =
                        Strip(Drop(lines[Kth(SubIdxUnder(lines, i), m)], 5))

\* two main topics parsed, the first with a subtopic, the second with none
C7_Witness ==
    /\ ret.fn = "parse_notes_hierarchy"
    /\ WellFormedNotes(ArgLines)
    /\ Cardinality(MainIdx(ArgLines)) = 2
    /\ Len(ret.val) = 2
    /\ Len(ret.val[1].subtopics) = 1
    /\ Len(ret.val[2].subtopics) = 0

\* the other rules of validate_notes_structure hold of the document
OtherRulesHold(lines) ==
    /\ HeadingsPlain(lines)
    /\ SubsUnderMains(lines)
    /\ MainIdx(lines) # {} => SubIdx(lines) # {}
    /\ Cardinality({i \in 1..Len(lines) : BulletRegex(lines[i])}) >= 2

\* C8: a notes document that satisfies the other rules and has n main-topic
\* headings is accepted by validate_notes_structure iff 1 <= n <= 15.
C8_MainTopicBounds ==
    (ret.fn = "validate_notes_structure" /\ OtherRulesHold(ArgLines)) =>
        LET n == Cardinality(MainIdx(ArgLines)) IN
        /\ ret.val.valid <=> (1 <= n /\ n <= 15)
        /\ n = 0 => ~ret.val.valid
        /\ n = 16 => ~ret.val.valid

\* a document with exactly 15 main topics is accepted
C8_Witness ==
    /\ ret.fn = "validate_notes_structure"
    /\ OtherRulesHold(ArgLines)
    /\ Cardinality(MainIdx(ArgLines)) = 15
    /\ ret.val.valid

\* a document with exactly 16 main topics is rejected for that reason alone
C8_WitnessSixteen ==
    /\ ret.fn = "validate_notes_structure"
    /\ OtherRulesHold(ArgLines)
    /\ Cardinality(MainIdx(ArgLines)) = 16
    /\ ret.val.errors = << <<"Too many main topics (", "1", "6", "). Expected 3-7">> >>


IsCategoryLine(line) == StartsWith(Strip(line), CATEGORY_MARK)
IsDescriptionLine(line) == StartsWith(Strip(line), DESCRIPTION_LABEL)

DescriptionIdx(lines) == {i \in 1..Len(lines) : IsDescriptionLine(lines[i])}
CategoryIdxBefore(lines, i) == {h \in 1..(i - 1) : IsCategoryLine(lines[h])}

\* C5: every item returned by parse_action_items has the normalized category of
\* the nearest category heading that precedes its Description line.  Stated on
\* the inputs where every Description line follows some category heading and
\* yields an item, so that the i-th item is the one started by the i-th
\* Description line.
C5_CategoryOfNearestHeading ==
    (/\ ret.fn = "parse_action_items"
     /\ Len(ret.val) = Cardinality(DescriptionIdx(ArgLines))
     /\ \A d \in DescriptionIdx(ArgLines) : CategoryIdxBefore(ArgLines, d) # {}) =>
        \A i \in 1..Len(ret.val) :
            LET d == Kth(DescriptionIdx(ArgLines), i)
                h == Max(CategoryIdxBefore(ArgLines, d))
            IN ret.val[i].category = normalize_category(Strip(Drop(Strip(ArgLines[h]), 3)))

\* C6: a non-empty list returned by parse_action_items, formatted by
\* format_actions_as_markdown and parsed again, gives the same number of items
\* with the same fields.
C6_RoundTrip ==
    (/\ ret.fn = "format_and_reparse"
     /\ ret.val.items # <<>>
     /\ \A i \in 1..Len(ret.val.items) : ret.val.items[i].description # <<>>) =>
        /\ Len(ret.val.reparsed) = Len(ret.val.items)
        /\ \A i \in 1..Len(ret.val.items) :
              \E j \in 1..Len(ret.val.reparsed) : ret.val.reparsed[j] = ret.val.items[i]


----------------------------------------------------------------------------
(* Properties of the processing run *)

TranscriptionSucceeded == ~IsNone(loc.transcript)

ActionStageReturned == ~IsNone(loc.actions)

\* C1: a run in which transcription succeeded and extract_action_items returned
\* a null item list with an error (an LLM call failure in stage 4) ends in
\* Complete: processed flag set, transcript stored, failure handler not entered.
C1_Stage4FailureStillCompletes ==
    (/\ RunEnded
     /\ TranscriptionSucceeded
     /\ ActionStageReturned
     /\ IsNone(Get(loc.actions).items)
     /\ Truthy(Get(loc.actions).error)) =>
        /\ pc = "done"
        /\ session.processed
        /\ session.transcript = Get(loc.transcript)
        /\ \A i \in 1..Len(ui) : ui[i] # "processing_failed"

\* C2: at the end of a run (success, stage-1 validation abort or exception
\* handler) every temporary file created during the run has been passed to
\* cleanup_temp_files and no longer exists.
C2_TempFilesCleanedAtRunEnd ==
    RunEnded => (created \subseteq cleaned /\ created \cap fs = {})

StageRank(stage) ==
    CASE stage = "audio" -> 1
      [] stage = "transcription" -> 2
      [] stage = "title" -> 3
      [] stage = "notes" -> 4
      [] stage = "actions" -> 5
      [] stage = "cleanup" -> 6

Invocations(stage) == Cardinality({i \in 1..Len(trace) : trace[i] = stage})

\* C3: the stages of a run are invoked in the order audio, transcription,
\* (title), notes, actions, cleanup, each at most once; a stage-1 validation
\* failure or a transcription exception is followed by no later processing
\* stage; action extraction is invoked exactly once in every run where
\* transcription succeeded.
C3_StagesInOrderAtMostOnce ==
    /\ \A i, j \in 1..Len(trace) :
          i < j => StageRank(trace[i]) < StageRank(trace[j])
    /\ pc = "aborted" =>
          \A i \in 1..Len(trace) : trace[i] \in {"audio", "cleanup"}
    /\ (RunEnded /\ Invocations("transcription") = 1 /\ ~TranscriptionSucceeded) =>
          \A i \in 1..Len(trace) : trace[i] \in {"audio", "transcription", "cleanup"}
    /\ (RunEnded /\ TranscriptionSucceeded) => Invocations("actions") = 1

\* C4: when generate_structured_notes has returned non-null notes together with
\* a structure warning, the session's notes_markdown and notes_hierarchy are
\* those of the returned notes once stage 3 is over.
C4_WarnedNotesKept ==
    (/\ pc \in {"stage4", "stage4_retry", "stage4_store", "complete", "summary", "done"}
     /\ ~IsNone(Get(loc.notes).notes)
     /\ Truthy(Get(loc.notes).error)) =>
        /\ session.notes_markdown = Get(Get(loc.notes).notes)
        /\ session.notes_hierarchy = parse_notes_hierarchy(Get(Get(loc.notes).notes))

----------------------------------------------------------------------------
(* Properties of generate_structured_notes *)

FirstCallFailedValidation ==
    /\ IsNone(llm_calls[1].response.error)
    /\ ~validate_notes_structure(Get(llm_calls[1].response.text)).valid

\* C9: generate_structured_notes calls the client at most twice; the second
\* call is made iff the first succeeded and its output failed
\* validate_notes_structure; it carries the first prompt with the reinforcing
\* instruction appended and 0.8 times the first temperature; there is no third
\* call.
C9_AtMostOneRetry ==
    /\ Len(llm_calls) <= 2
    /\ pc = "fn_retry" => (Len(llm_calls) = 1 /\ FirstCallFailedValidation)
    /\ pc = "fn_ret" =>
          /\ Len(llm_calls) >= 1
          /\ llm_calls[1].prompt = get_notes_prompt(arg).val
          /\ Len(llm_calls) = 2 <=> FirstCallFailedValidation
    /\ Len(llm_calls) = 2 =>
          /\ llm_calls[2].prompt = llm_calls[1].prompt \o NOTES_RETRY_INSTRUCTION
          /\ llm_calls[2].temperature * 10 = llm_calls[1].temperature * 8
          /\ llm_calls[2].max_tokens = llm_calls[1].max_tokens

\* the retry was made, its output failed validation too, and nothing followed
C9_Witness ==
    /\ pc = "fn_ret"
    /\ Len(llm_calls) = 2
    /\ IsNone(llm_calls[2].response.error)
    /\ ~validate_notes_structure(Get(llm_calls[2].response.text)).valid
    /\ llm_calls[2].temperature = 240

SomeCallFailed == \E i \in 1..Len(llm_calls) : ~IsNone(llm_calls[i].response.error)

WARNING_PREFIX == <<"Warning: Notes structure may be incomplete. Issues: ">>

\* the violated rules of a notes text whose headings are in the plain form, each
\* by the message that reports it; a blank text violates the rule that notes
\* are not empty, which stands for the others
ViolatedRuleMessages(text) ==
    LET lines == Split(text, "\n")
        n == Cardinality(MainIdx(lines))
        bullets == Cardinality({i \in 1..Len(lines) : BulletRegex(lines[i])})
    IN IF Strip(text) = <<>> THEN { <<"Notes are empty">> }
       ELSE (IF n = 0 THEN { <<"No main topics found. Expected at least 1">> } ELSE {})
         \cup (IF n > 15 THEN { <<"Too many main topics (">> \o Digits(n)
                                   \o <<"). Expected 3-7">> } ELSE {})
         \cup (IF n > 0 /\ SubIdx(lines) = {}
               THEN { <<"No subtopics found. Expected at least 1 per main topic">> }
               ELSE {})
         \cup (IF bullets < 2 THEN { <<"Too few bullet points (">> \o Digits(bullets)
                                        \o <<"). Expected some detailed notes">> } ELSE {})
         \cup (IF ~SubsUnderMains(lines)
               THEN { <<"Subtopic found before any main topic">> } ELSE {})

\* C10: generate_structured_notes returns null notes iff a call of the client
\* returned an error, and then the error is non-null and the metadata empty;
\* when both calls returned text and the retry text fails validation, the retry
\* text is returned with an error that lists every violated rule and with the
\* metadata of that text.
C10_NullNotesIffCallFailed ==
    (pc = "fn_ret") =>
        /\ IsNone(ret.val.notes) <=> SomeCallFailed
        /\ IsNone(ret.val.notes) => (Truthy(ret.val.error) /\ ret.val.metadata = None)
        /\ (/\ Len(llm_calls) = 2
            /\ ~SomeCallFailed
            /\ ~validate_notes_structure(Get(llm_calls[2].response.text)).valid) =>
              LET text == Get(llm_calls[2].response.text) IN
              /\ ret.val.notes = Some(text)
              /\ Truthy(ret.val.error)
              /\ ret.val.error = Some(WARNING_PREFIX
                    \o Join(validate_notes_structure(text).errors, <<",", " ">>))
              /\ HeadingsPlain(Split(text, "\n")) =>
                    \A message \in ViolatedRuleMessages(text) :
                        Contains(Get(ret.val.error), message)
              /\ ret.val.metadata = Some(get_notes_metadata(text))

\* the retry text is returned with a warning that lists two violated rules
C10_Witness ==
    /\ pc = "fn_ret"
    /\ Len(llm_calls) = 2
    /\ ~SomeCallFailed
    /\ ~IsNone(ret.val.notes)
    /\ HeadingsPlain(Split(Get(ret.val.notes), "\n"))
    /\ Cardinality(ViolatedRuleMessages(Get(ret.val.notes))) = 2
    /\ Truthy(ret.val.error)

\* the retry call failed: null notes, an error, empty metadata
C10_WitnessRetryFailed ==
    /\ pc = "fn_ret"
    /\ Len(llm_calls) = 2
    /\ SomeCallFailed
    /\ IsNone(ret.val.notes)


----------------------------------------------------------------------------
(* Properties of get_actions_prompt and extract_action_items *)

FirstCallMade == pc \in {"fn_retry", "fn_ret"} /\ Len(llm_calls) >= 1

FirstText == Get(llm_calls[1].response.text)

FirstCallSucceeded == IsNone(llm_calls[1].response.error)

\* C11: when the first response contains 'no action items identified' in any
\* letter case, extract_action_items returns an empty item list, no error and
\* the raw response, after exactly one call of the client, whatever else the
\* response contains.
C11_NoItemsPhraseShortCircuit ==
    (/\ FirstCallMade
     /\ FirstCallSucceeded
     /\ Contains(Lower(FirstText), NO_ITEMS_IDENTIFIED)) =>
        /\ pc = "fn_ret"
        /\ Len(llm_calls) = 1
        /\ ret = [fn |-> "extract_action_items",
                  val |-> Returned(ActionsResult(Some(<<>>), None, FirstText))]

\* the phrase in capitals, next to a parseable item: one call, no item returned
C11_Witness ==
    /\ pc = "fn_ret"
    /\ Len(llm_calls) = 1
    /\ FirstCallSucceeded
    /\ Contains(FirstText, <<"N", "O", " ", "A", "C", "T", "I", "O", "N", " ", "I", "T", "E", "M", "S", " ", "I", "D", "E", "N", "T", "I", "F", "I", "E", "D">>)
    /\ parse_action_items(FirstText) # <<>>
    /\ ret.val.val.items = Some(<<>>)

\* the retry call carries the first prompt with the reinforcing instruction and
\* 0.8 times the first temperature
RetryCallShape ==
    /\ llm_calls[2].prompt = llm_calls[1].prompt \o ACTIONS_RETRY_INSTRUCTION
    /\ llm_calls[2].temperature * 10 = llm_calls[1].temperature * 8
    /\ llm_calls[2].max_tokens = llm_calls[1].max_tokens

\* C12 as stated: extract_action_items retries exactly when the first call
\* succeeded, its response parses to zero items and does not contain
\* 'no action items identified'; the client is never called more than twice.
C12_RetryIffNoItemsAndNoIdentifiedPhrase ==
    /\ Len(llm_calls) <= 2
    /\ (pc = "fn_ret" /\ ret.fn = "extract_action_items" /\ Len(llm_calls) >= 1) =>
          /\ Len(llm_calls) = 2 <=>
                /\ FirstCallSucceeded
                /\ parse_action_items(FirstText) = <<>>
                /\ ~Contains(Lower(FirstText), NO_ITEMS_IDENTIFIED)
          /\ Len(llm_calls) = 2 => RetryCallShape

\* C12 amended: extract_action_items retries exactly when the first call
\* succeeded, its response parses to zero items and does not contain
\* 'no action items' in any letter case; the retry carries the reinforced
\* prompt and 0.8 times the temperature; the client is never called more than
\* twice.
C12_RetryIffNoItemsAndNoPhrase ==
    /\ Len(llm_calls) <= 2
    /\ pc = "fn_retry" => Len(llm_calls) = 1
    /\ (pc = "fn_ret" /\ ret.fn = "extract_action_items" /\ Len(llm_calls) >= 1) =>
          /\ Len(llm_calls) = 2 <=>
                /\ FirstCallSucceeded
                /\ parse_action_items(FirstText) = <<>>
                /\ ~Contains(Lower(FirstText), <<"n", "o", " ", "a", "c", "t", "i", "o", "n", " ", "i", "t", "e", "m", "s">>)
          /\ Len(llm_calls) = 2 => RetryCallShape

\* a retry was made after a response without items and without the phrase
C12_Witness ==
    /\ pc = "fn_ret"
    /\ Len(llm_calls) = 2
    /\ FirstText = <<"#", "#", "#", " ", "E", "x", "a", "m", "\n", "#", "#", "#", " ", "L", "a", "b">>
    /\ llm_calls[2].temperature = 160

\* C13: when the retry's response also parses to zero items, the empty result
\* is returned together with a non-null warning.
C13_SecondFailureWarned ==
    (/\ pc = "fn_ret"
     /\ Len(llm_calls) = 2
     /\ IsNone(llm_calls[2].response.error)
     /\ parse_action_items(Get(llm_calls[2].response.text)) = <<>>) =>
        /\ ret.val.ok
        /\ ret.val.val.items = Some(<<>>)
        /\ Truthy(ret.val.val.error)

\* the prompt states the lecture date somewhere before the transcript
DateLineBeforeTranscript(prompt, lecture_date, transcript) ==
    LET line == <<"LECTURE DATE: ">> \o lecture_date IN
    \E i \in 1..Len(prompt), j \in 1..Len(prompt) :
        /\ i + Len(line) <= j
        /\ SubSeq(prompt, i, i + Len(line) - 1) = line
        /\ SubSeq(prompt, j, j + Len(transcript) - 1) = transcript

\* C14: the prompt built by get_actions_prompt contains the transcript, and
\* states the lecture date before the transcript iff a non-empty lecture_date
\* was supplied.
C14_DateLineIffDateSupplied ==
    (ret.fn = "get_actions_prompt" /\ ret.val.ok) =>
        /\ Contains(ret.val.val, arg.transcript)
        /\ IF Truthy(arg.lecture_date)
           THEN DateLineBeforeTranscript(ret.val.val, Get(arg.lecture_date), arg.transcript)
           ELSE ~Contains(ret.val.val, <<"LECTURE DATE: ">>)

\* C15: extract_action_items never raises; whatever the transcript, the
\* lecture date and the client's answers, it returns a triple, with the error
\* component set when there is no item list.
C15_ExtractNeverRaises ==
    (pc = "fn_ret" /\ ret.fn = "extract_action_items") =>
        /\ ret.val.ok
        /\ IsNone(ret.val.val.items) => Truthy(ret.val.val.error)


----------------------------------------------------------------------------
(* Properties of a session with several runs *)

\* the stages invoked by the current run
RunStages == SelectSeq(trace, LAMBDA stage : stage # "rerun")

\* C16: at the start of each run the whole session record is empty again, and
\* at the end of a run every artifact in the session is the current run's.
C16_SessionResetEachRun ==
    /\ pc = "stage1" =>
          /\ session.transcript = <<>>
          /\ session.notes_markdown = <<>>
          /\ session.notes_hierarchy = <<>>
          /\ session.action_items = <<>>
          /\ session.actions_markdown = <<>>
          /\ session.metadata = None
          /\ session.temp_files = <<>>
          /\ ~session.processed
    /\ pc \in {"done", "aborted", "failed"} =>
          /\ session.transcript # <<>> =>
                (TranscriptionSucceeded /\ session.transcript = Get(loc.transcript))
          /\ session.notes_markdown # <<>> =>
                (~IsNone(loc.notes) /\ Get(loc.notes).notes = Some(session.notes_markdown))
          /\ session.action_items # <<>> =>
                (~IsNone(loc.actions) /\ Get(loc.actions).items = Some(session.action_items))

\* C17: when the connectivity check fails the run stops before stage 1: no
\* stage is invoked, no temporary file is created, and the session state is
\* what it was before the button was pressed.
C17_ConnectionFailureLeavesSession ==
    [][(pc = "idle" /\ pc' = "stopped") =>
          /\ session' = session
          /\ fs' = fs
          /\ created' = {}
          /\ RunStages' = <<>>
          /\ llm_calls' = <<>>]_vars

\* the check failed on the second press, with the first run's artifacts in the session
C17_Witness ==
    /\ pc = "stopped"
    /\ session.processed
    /\ session.transcript # <<>>
    /\ session.notes_markdown # <<>>
    /\ RunStages = <<>>


\* C18: normalize_category returns, for every input string, one of the 8
\* fixed categories, and each of the 8 names is returned unchanged when it is
\* normalized (again)
C18_CategoryNormalizedFixedPoint ==
    /\ \A category \in CATEGORIES : normalize_category(category) = category
    /\ ret.fn = "normalize_category" => ret.val \in CATEGORIES
    /\ ret.fn = "normalize_category_again" => ret.val \in CATEGORIES /\ ret.val = arg

\* a mixed-case padded heading of two keywords was normalized by the first
\* matching rule, and the result normalized again
C18_Witness ==
    /\ ret.fn = "normalize_category_again"
    /\ arg = <<"R", "e", "a", "d", "i", "n", "g", " ", "(", "R", "e", "q", "u", "i", "r", "e", "d", ")">>
    /\ ret.val = <<"R", "e", "a", "d", "i", "n", "g", " ", "(", "R", "e", "q", "u", "i", "r", "e", "d", ")">>
    /\ \E input \in CategoryInputs :
         /\ input = <<"R", "e", "a", "d", "i", "n", "g", "s", " ", "R", "E", "Q", "U", "I", "R", "E", "D">>
         /\ normalize_category(input) = arg


\* the rank the claim gives a priority value
PriorityRank(priority) ==
    CASE priority = <<"H", "i", "g", "h">> -> 0
      [] priority = <<"M", "e", "d", "i", "u", "m">> -> 1
      [] priority = <<"L", "o", "w">> -> 2
      [] OTHER -> 3

\* the items of one rank, in the order they have in the list
OfRank(items, rank) ==
    SelectSeq(items, LAMBDA item : PriorityRank(item.priority) = rank)

Priorities(items) == [i \in 1..Len(items) |-> items[i].priority]

\* C19: sort_actions_by_priority returns the items of its input ordered by
\* rank (High 0, Medium 1, Low 2, anything else 3): the ranks never decrease
\* along the result, and the items of each rank are exactly those of the input
\* in their original relative order (so the result is a permutation of the
\* input and the sort is stable)
C19_StableSortByPriorityRank ==
    ret.fn \in { "sort_actions_by_priority", "sort_actions_by_priority_again" } =>
        /\ Len(ret.val) = Len(arg)
        /\ \A i \in 1..(Len(ret.val) - 1) :
             PriorityRank(ret.val[i].priority) <= PriorityRank(ret.val[i + 1].priority)
        /\ \A rank \in 0..3 : OfRank(ret.val, rank) = OfRank(arg, rank)

\* [Low, High, Medium, High] became [High, High, Medium, Low], the first High
\* item (d) still in front of the second (e)
C19_Witness ==
    /\ ret.fn = "sort_actions_by_priority"
    /\ Priorities(arg) = <<<<"L", "o", "w">>, <<"H", "i", "g", "h">>, <<"M", "e", "d", "i", "u", "m">>, <<"H", "i", "g", "h">>>>
    /\ arg[2].description = <<"d">>
    /\ arg[4].description = <<"e">>
    /\ Priorities(ret.val) = <<<<"H", "i", "g", "h">>, <<"H", "i", "g", "h">>, <<"M", "e", "d", "i", "u", "m">>, <<"L", "o", "w">>>>
    /\ ret.val[1] = arg[2]
    /\ ret.val[2] = arg[4]


\* C20: for a whole number of seconds s, format_duration shows
\* h = s div 3600, m = (s mod 3600) div 60 and sec = s mod 60 (which add up
\* to s, with m and sec below 60) as "Hh Mm Ss" when h > 0, as "Mm Ss" when
\* h = 0 and m > 0, and as "Ss" otherwise; 45 gives "45s", 125 "2m 5s" and
\* 3725 "1h 2m 5s"
C20_DurationShownAsHoursMinutesSeconds ==
    /\ format_duration(Seconds(45)) = <<"4", "5", "s">>
    /\ format_duration(Seconds(125)) = <<"2", "m", " ", "5", "s">>
    /\ format_duration(Seconds(3725)) = <<"1", "h", " ", "2", "m", " ", "5", "s">>
    /\ ret.fn = "format_duration" =>
         LET s == arg.int
             h == s \div 3600
             m == (s % 3600) \div 60
             sec == s % 60
         IN /\ arg.frac = 0
            /\ h * 3600 + m * 60 + sec = s
            /\ m < 60 /\ sec < 60
            /\ ret.val = IF h > 0
                           THEN Digits(h) \o <<"h", " ">> \o Digits(m) \o <<"m", " ">> \o Digits(sec) \o <<"s">>
                         ELSE IF m > 0
                           THEN Digits(m) \o <<"m", " ">> \o Digits(sec) \o <<"s">>
                         ELSE Digits(sec) \o <<"s">>

\* 3725 seconds were shown as "1h 2m 5s"
C20_Witness ==
    /\ ret.fn = "format_duration"
    /\ arg = Seconds(3725)
    /\ ret.val = <<"1", "h", " ", "2", "m", " ", "5", "s">>


\* the maximal runs of characters that are not whitespace, as <<first, last>>
WordRuns(text) ==
    LET firsts == { i \in 1..Len(text) :
                      text[i] \notin Whitespace /\ (i = 1 \/ text[i - 1] \in Whitespace) }
        lasts == { j \in 1..Len(text) :
                     text[j] \notin Whitespace /\ (j = Len(text) \/ text[j + 1] \in Whitespace) }
    IN { <<i, Min({ j \in lasts : j >= i })>> : i \in firsts }

WordCount(text) == Cardinality(WordRuns(text))

DistinctWordCount(text) ==
    Cardinality({ SubSeq(text, run[1], run[2]) : run \in WordRuns(text) })

\* C21: validate_transcript rejects a transcript exactly when it has no
\* character other than whitespace, or fewer than 10 words, or when 10 times
\* its number of distinct words is less than its number of words; a ratio of
\* exactly 10% is accepted; 9 words fail, 10 distinct words pass, 50 words
\* with one word repeated 48 times fail
C21_TranscriptRejectedExactlyWhen ==
    /\ ~validate_transcript(RepetitiveTranscript(9, 9, <<" ">>)).valid
    /\ validate_transcript(RepetitiveTranscript(10, 10, <<" ">>)).valid
    /\ ~validate_transcript(RepetitiveTranscript(50, 3, <<" ">>)).valid
    /\ ret.fn = "validate_transcript" =>
         (~ret.val.valid <=>
             \/ \A i \in 1..Len(arg) : arg[i] \in Whitespace
             \/ WordCount(arg) < 10
             \/ 10 * DistinctWordCount(arg) < WordCount(arg))

\* 20 words, 2 of them distinct (exactly 10%), were accepted
C21_Witness ==
    /\ ret.fn = "validate_transcript"
    /\ WordCount(arg) = 20
    /\ DistinctWordCount(arg) = 2
    /\ ret.val.valid


QuoteChars == { "\"", "'" }

\* the text without the quote characters that enclose it
WithoutEnclosingQuotes(text) ==
    LET inner == { i \in 1..Len(text) : text[i] \notin QuoteChars } IN
    IF inner = {} THEN <<>> ELSE SubSeq(text, Min(inner), Max(inner))

\* the fields the claim gives the item of one block
ExpectedFields(block) ==
    [description |-> block.description,
     due_date |-> IF IsNone(block.due_date) THEN <<"N", "o", "t", " ", "s", "p", "e", "c", "i", "f", "i", "e", "d">> ELSE Get(block.due_date),
     priority |-> IF IsNone(block.priority) THEN <<"M", "e", "d", "i", "u", "m">>
                  ELSE normalize_priority(Get(block.priority)),
     context |-> IF IsNone(block.context) THEN <<>>
                 ELSE WithoutEnclosingQuotes(Get(block.context))]

ItemFields(item) ==
    [description |-> item.description, due_date |-> item.due_date,
     priority |-> item.priority, context |-> item.context]

\* C22: for one category heading followed by n >= 1 item blocks,
\* parse_action_items returns n items in input order; description and due
\* date are the field text, the priority is the normalized priority, the
\* context is the field text without its enclosing quotes, and a missing
\* Due Date, Priority or Context line gives 'Not specified', 'Medium' and ''
C22_BlocksParsedToItems ==
    ret.fn = "parse_action_items" /\ DOMAIN arg = { "heading", "blocks" } =>
        /\ Len(ret.val) = Len(arg.blocks)
        /\ \A k \in 1..Len(arg.blocks) : ItemFields(ret.val[k]) = ExpectedFields(arg.blocks[k])


\* the text the recognizer gave for window k: its segments joined, trimmed
ChunkText(k) == Strip(Join(arg.segments[k], <<" ">>))

\* C23: the transcript transcribe_audio returns has no leading or trailing
\* whitespace and, when the audio is longer than a chunk, is the texts of the
\* windows in order joined by single spaces, also when a window's text is empty
C23_TranscriptTrimmedAndJoined ==
    ret.fn = "transcribe_audio" =>
        /\ ret.val = <<>> \/ (ret.val[1] \notin Whitespace /\ ret.val[Len(ret.val)] \notin Whitespace)
        /\ DurationGreater(arg.duration, ChunkSeconds) =>
             ret.val = Join([k \in 1..Len(arg.segments) |-> ChunkText(k)], <<" ">>)


\* C24: the title generate_lecture_title returns on success is at most 100
\* characters long for every model output, and after stage 2b the title is
\* never empty: the generated title, or the fallback when the call failed or
\* gave nothing
C24_TitleShortAndNeverEmpty ==
    /\ ret.fn = "generate_lecture_title" /\ IsNone(ret.val.error) =>
         Len(Get(ret.val.title)) <= 100
    /\ ret.fn = "auto_title" =>
         /\ Get(ret.val.title) # <<>>
         /\ (~IsNone(arg.error) \/ Strip(Get(arg.text)) = <<>>) =>
              Get(ret.val.title) = FALLBACK_TITLE


\* the five rules, on the lines of a notes text; a heading is a line the
\* validator counts as one
RuleSomeMainTopic(lines) == \E i \in 1..Len(lines) : MainTopicRegex(lines[i])
RuleAtMost15MainTopics(lines) == MainTopicCount(lines) <= 15
RuleSomeSubtopic(lines) ==
    RuleSomeMainTopic(lines) => \E i \in 1..Len(lines) : SubtopicRegex(lines[i])
RuleTwoBullets(lines) == BulletCount(lines) >= 2
RuleNoSubtopicFirst(lines) ==
    \A i \in 1..Len(lines) :
        SubtopicRegex(lines[i]) => \E j \in 1..(i - 1) : MainTopicRegex(lines[j])

ViolatedRules(lines) ==
    (IF RuleSomeMainTopic(lines) THEN {} ELSE {1})
    \cup (IF RuleAtMost15MainTopics(lines) THEN {} ELSE {2})
    \cup (IF RuleSomeSubtopic(lines) THEN {} ELSE {3})
    \cup (IF RuleTwoBullets(lines) THEN {} ELSE {4})
    \cup (IF RuleNoSubtopicFirst(lines) THEN {} ELSE {5})

\* C25: validate_notes_structure accepts a non-empty notes text exactly when
\* all five rules hold, its error list has one entry for each violated rule,
\* and an empty or whitespace-only text is rejected with the single error
\* 'Notes are empty'
C25_AcceptsIffFiveRulesHold ==
    ret.fn = "validate_notes_structure" =>
        IF \A i \in 1..Len(arg) : arg[i] \in Whitespace
        THEN ~ret.val.valid /\ ret.val.errors = << <<"Notes are empty">> >>
        ELSE /\ ret.val.valid <=> ViolatedRules(Split(arg, "\n")) = {}
             /\ Len(ret.val.errors) = Cardinality(ViolatedRules(Split(arg, "\n")))


\* the non-blank lines between the heading at line h and the next heading
BodyLinesAfter(lines, h) ==
    LET later == { j \in MainIdx(lines) \cup SubIdx(lines) : j > h }
        stop == IF later = {} THEN Len(lines) + 1 ELSE Min(later)
    IN SelectSeq(SubSeq(lines, h + 1, stop - 1), LAMBDA line : Strip(line) # <<>>)

\* the content a section with these body lines holds
BodyText(body) == Strip(Join(body, NL))

\* C26: parse_notes_hierarchy loses or misattributes no body line: the
\* non-blank lines that follow a subtopic heading are, in order, the content
\* of that subtopic, and those that follow a main-topic heading before any
\* subtopic heading are the content of that main topic
C26_BodyLinesKeptInTheirSection ==
    (ret.fn = "parse_notes_hierarchy" /\ WellFormedNotes(ArgLines)) =>
        LET lines == ArgLines IN
        \A i \in 1..Cardinality(MainIdx(lines)) :
            /\ ret.val[i].content = BodyText(BodyLinesAfter(lines, Kth(MainIdx(lines), i)))
            /\ \A m \in 1..Cardinality(SubIdxUnder(lines, i)) :
                 ret.val[i].subtopics[m].content =
                    BodyText(BodyLinesAfter(lines, Kth(SubIdxUnder(lines, i), m)))


\* the reference rule list: a rule matches when, for one of its alternatives,
\* every keyword of the alternative occurs in the text
ReferenceRules ==
    << [alternatives |-> { { <<"a", "s", "s", "i", "g", "n", "m", "e", "n", "t">> } }, category |-> <<"A", "s", "s", "i", "g", "n", "m", "e", "n", "t">>],
       [alternatives |-> { { <<"r", "e", "a", "d", "i", "n", "g">>, <<"r", "e", "q", "u", "i", "r", "e", "d">> } }, category |-> <<"R", "e", "a", "d", "i", "n", "g", " ", "(", "R", "e", "q", "u", "i", "r", "e", "d", ")">>],
       [alternatives |-> { { <<"r", "e", "a", "d", "i", "n", "g">>, <<"s", "u", "g", "g", "e", "s", "t", "e", "d">> } }, category |-> <<"R", "e", "a", "d", "i", "n", "g", " ", "(", "S", "u", "g", "g", "e", "s", "t", "e", "d", ")">>],
       [alternatives |-> { { <<"e", "x", "a", "m">> } }, category |-> <<"E", "x", "a", "m">>],
       [alternatives |-> { { <<"d", "e", "a", "d", "l", "i", "n", "e">> } }, category |-> <<"D", "e", "a", "d", "l", "i", "n", "e">>],
       [alternatives |-> { { <<"r", "e", "v", "i", "e", "w">> } }, category |-> <<"R", "e", "v", "i", "e", "w", " ", "T", "o", "p", "i", "c">>],
       [alternatives |-> { { <<"l", "a", "b">> }, { <<"p", "r", "a", "c", "t", "i", "c", "a", "l">> } }, category |-> <<"L", "a", "b", "/", "P", "r", "a", "c", "t", "i", "c", "a", "l">>] >>

RuleMatches(rule, text) ==
    \E alternative \in rule.alternatives :
        \A keyword \in alternative : Contains(text, keyword)

MatchingRules(text) ==
    { r \in 1..Len(ReferenceRules) : RuleMatches(ReferenceRules[r], text) }

\* the category of the earliest matching rule, Other when none matches
ReferenceCategory(input) ==
    LET matching == MatchingRules(Lower(input)) IN
    IF matching = {} THEN <<"O", "t", "h", "e", "r">> ELSE ReferenceRules[Min(matching)].category

\* C27: normalize_category gives the category of the first rule of the
\* reference list that the lower-cased input matches by substring containment
\* (assignment; reading and required; reading and suggested; exam; deadline;
\* review; lab or practical), and Other when no rule matches
C27_CategoryIsFirstMatchingRule ==
    ret.fn \in { "normalize_category", "normalize_category_again" } =>
        ret.val = ReferenceCategory(arg)

\* an input that matches the rules for 'exam' and for 'assignment' got the
\* category of the earlier rule
C27_Witness ==
    /\ ret.fn = "normalize_category"
    /\ arg = <<"E", "X", "A", "M", " ", "a", "s", "s", "i", "g", "n", "m", "e", "n", "t">>
    /\ Cardinality(MatchingRules(Lower(arg))) = 2
    /\ ret.val = <<"A", "s", "s", "i", "g", "n", "m", "e", "n", "t">>


\* the length end - start of a window, in tenths of a second
WindowTenths(window) ==
    (window.end.int * 10 + window.end.frac) - (window.start.int * 10 + window.start.frac)

\* C28: for an audio longer than the chunk length, the windows of
\* get_audio_chunks cover the recording without gap or overlap: the first
\* starts at 0, each starts where the one before ends, none is longer than
\* the chunk length, and the last ends at the audio's duration
C28_WindowsCoverRecording ==
    (ret.fn = "get_audio_chunks" /\ DurationGreater(arg.duration, ChunkSeconds)) =>
        /\ Len(ret.val) >= 1
        /\ ret.val[1].start = Seconds(0)
        /\ \A k \in 2..Len(ret.val) : ret.val[k].start = ret.val[k - 1].end
        /\ \A k \in 1..Len(ret.val) :
             WindowTenths(ret.val[k]) > 0 /\ WindowTenths(ret.val[k]) <= ChunkSeconds * 10
        /\ ret.val[Len(ret.val)].end = arg.duration


\* C29: a run that ends in the failure handler ('Processing failed') or in
\* the stage-1 abort leaves the session's processed flag false, so that the
\* results section is not shown for a failed run
C29_FailedRunNotProcessed ==
    pc \in { "failed", "aborted" } => ~session.processed


\* the number of subtopics in the whole tree
RECURSIVE TotalSubtopics(_)
TotalSubtopics(main_topics) ==
    IF main_topics = <<>> THEN 0
    ELSE Len(Head(main_topics).subtopics) + TotalSubtopics(Tail(main_topics))

\* C30: for every notes text validate_notes_structure accepts,
\* parse_notes_hierarchy returns at least one main topic and at least one
\* subtopic in all, and as many main topics as the main-topic count of
\* get_notes_metadata
C30_AcceptedNotesParseAsCounted ==
    (ret.fn = "validate_notes_structure" /\ ret.val.valid) =>
        LET main_topics == parse_notes_hierarchy(arg) IN
        /\ Len(main_topics) >= 1
        /\ TotalSubtopics(main_topics) >= 1
        /\ Len(main_topics) = get_notes_metadata(arg).main_topics_count

====
